---------------------------- MODULE Spec2Model ----------------------------
(***************************************************************************)
(* Model of the "Rock Solid Man" daily devotional generator:               *)
(*   - ContentTracker (src/content-tracker.js, lines 6-114): the history   *)
(*     store and the novelty validator;                                    *)
(*   - the regeneration controller (src/unnamed/part_001, lines 179-332).  *)
(*                                                                         *)
(* Text is modelled as a sequence of one-character strings, so that        *)
(* normalize, split, trim and the date formatting are computed character   *)
(* by character as the JavaScript does.  The em dash of the fallback title *)
(* is the single character EmDash.                                         *)
(*                                                                         *)
(* Specifications: Spec is the controller, run after run; SpecForced is    *)
(* the controller started with FORCE_REGENERATE; SpecValidate applies      *)
(* validate to stored histories; SpecTitles applies the title check and    *)
(* sim to titles of many words; SpecRecord calls record() again and again; *)
(* SpecStore loads, records into and prunes the tracker file; SpecSession  *)
(* is one tracker validating and recording from an empty history; SpecSim  *)
(* measures pairs of short texts; SpecAppend is record() with and without  *)
(* reference and theme; SpecPrune is cleanupOldData of the simple tracker  *)
(* (src/content-tracker.js, lines 125-378); SpecDaily is a tracker that    *)
(* records once a day; SpecOverlap is several processes of the controller  *)
(* at a time; SpecProviders is the multi-provider driver                   *)
(* (src/generate-devotional.js, lines 231-477); SpecLowCost is the         *)
(* low-cost DeepSeek driver (src/unnamed/part_001, lines 1-177).           *)
(*                                                                         *)
(* A point in time is [day, ms]: whole days since 1970-01-01 (UTC) and the *)
(* milliseconds elapsed in that day, i.e. the epoch time                   *)
(* day * 86400000 + ms written in mixed radix.                             *)
(***************************************************************************)
EXTENDS Integers, Sequences, FiniteSets, TLC

VARIABLES
    now,            \* Date.now() as [day, ms]
    file,           \* content_tracker.json on disk
    artifacts,      \* dates (ISO) of the devotionals/<date>.json files on disk
    data,           \* ContentTracker.data of the running process
    pc,             \* position of the running script
    today,          \* const today (part_001:193)
    block,          \* const block = tracker.getRecentBlocklists()
    system,         \* let system: the prompt of the next draft call
    attempt,        \* let attempt
    final,          \* let final
    lastReason,     \* let lastReason
    candidate,      \* const candidate of the current loop iteration
    check,          \* const check = tracker.validate(candidate)
    runs,           \* number of runs started
    draftCalls,     \* this run's callOpenAI calls made inside the loop
    fallbackCalls,  \* this run's callOpenAI calls made by the fallback
    lastPrompt,     \* the prompt of this run's latest callOpenAI call
    response,       \* what this run's latest callOpenAI call returned
    validations,    \* this run's tracker.validate calls
    rejections,     \* those of them that refused the candidate
    rejected,       \* the candidates they refused
    fileAtStart,    \* content_tracker.json as it was when this run started
    failure,        \* what made this run fail ("" when it did not)
    refLog          \* every reference ever pushed to recentScriptures

vars == << now, file, artifacts, data, pc, today, block, system, attempt,
           final, lastReason, candidate, check, runs, draftCalls,
           fallbackCalls, lastPrompt, response, validations, rejections,
           rejected, fileAtStart, failure, refLog >>

-----------------------------------------------------------------------------
(* Characters and strings *)

Lower == << "a","b","c","d","e","f","g","h","i","j","k","l","m",
            "n","o","p","q","r","s","t","u","v","w","x","y","z" >>
Upper == << "A","B","C","D","E","F","G","H","I","J","K","L","M",
            "N","O","P","Q","R","S","T","U","V","W","X","Y","Z" >>
Digit == << "0","1","2","3","4","5","6","7","8","9" >>

EmDash == "emdash"
NL     == "\n"

Range(s) == { s[i] : i \in DOMAIN s }

\* String.prototype.toLowerCase, one character
ToLowerChar(c) ==
    IF \E i \in DOMAIN Upper : Upper[i] = c
    THEN Lower[CHOOSE i \in DOMAIN Upper : Upper[i] = c]
    ELSE c

\* String.prototype.toUpperCase, one character (used to build inputs only)
ToUpperChar(c) ==
    IF \E i \in DOMAIN Lower : Lower[i] = c
    THEN Upper[CHOOSE i \in DOMAIN Lower : Lower[i] = c]
    ELSE c

\* the regular expression classes \w and \s
IsWordChar(c)  == c \in Range(Lower) \cup Range(Upper) \cup Range(Digit) \cup {"_"}
IsSpaceChar(c) == c \in {" ", NL, "\t"}

\* String.prototype.toLowerCase
ToLowerCase(s) == [ i \in 1 .. Len(s) |-> ToLowerChar(s[i]) ]

\* s.replace(/[^\w\s]/g, ' ')
BlankPunctuation(s) ==
    [ i \in 1 .. Len(s) |->
        IF IsWordChar(s[i]) \/ IsSpaceChar(s[i]) THEN s[i] ELSE " " ]

\* s.replace(/\s+/g, ' ')
\* (of a run of white space the last character stays, as a space)
CollapseSpaces(s) ==
    LET kept == SelectSeq([ i \in 1 .. Len(s) |-> i ],
                          LAMBDA i : ~(/\ IsSpaceChar(s[i])
                                       /\ i < Len(s)
                                       /\ IsSpaceChar(s[i + 1])))
    IN  [ k \in 1 .. Len(kept) |->
            IF IsSpaceChar(s[kept[k]]) THEN " " ELSE s[kept[k]] ]

RECURSIVE TrimLeft(_)
TrimLeft(s) ==
    IF s # << >> /\ IsSpaceChar(Head(s)) THEN TrimLeft(Tail(s)) ELSE s

RECURSIVE TrimRight(_)
TrimRight(s) ==
    IF s # << >> /\ IsSpaceChar(s[Len(s)])
    THEN TrimRight(SubSeq(s, 1, Len(s) - 1)) ELSE s

\* String.prototype.trim
Trim(s) == TrimRight(TrimLeft(s))

\* s.replace(/\n{3,}/g, '\n\n')
\* (of a run of newlines the last two stay)
CollapseNewlines(s) ==
    LET kept == SelectSeq([ i \in 1 .. Len(s) |-> i ],
                          LAMBDA i : ~(/\ i + 2 <= Len(s)
                                       /\ s[i] = NL
                                       /\ s[i + 1] = NL
                                       /\ s[i + 2] = NL))
    IN  [ k \in 1 .. Len(kept) |-> s[kept[k]] ]

\* s.split(/\W+/): the pieces between the runs of non-word characters; an
\* empty piece stands at an end where the string starts or ends with such a
\* run, and the empty string splits into one empty piece.
\* String.prototype.split on the runs of the characters that Sep holds
\* of: one piece more than there are runs, each piece the characters from
\* the end of a run to the start of the next
SplitBy(s, Sep(_)) ==
    LET places == [ i \in 1 .. Len(s) |-> i ]
        starts == SelectSeq(places,
                            LAMBDA i : Sep(s[i]) /\ (i = 1 \/ ~Sep(s[i - 1])))
        ends   == SelectSeq(places,
                            LAMBDA i : Sep(s[i]) /\ (i = Len(s) \/ ~Sep(s[i + 1])))
    IN  [ k \in 1 .. Len(starts) + 1 |->
            SubSeq(s, IF k = 1 THEN 1 ELSE ends[k - 1] + 1,
                      IF k = Len(starts) + 1 THEN Len(s) ELSE starts[k] - 1) ]

SplitNonWord(s) == SplitBy(s, LAMBDA c : ~IsWordChar(c))

\* pieces.join(sep)
RECURSIVE Join(_, _)
Join(pieces, sep) ==
    IF pieces = << >> THEN << >>
    ELSE IF Len(pieces) = 1 THEN pieces[1]
         ELSE pieces[1] \o sep \o Join(Tail(pieces), sep)

\* arr.slice(-n)
SliceLast(s, n) ==
    IF Len(s) <= n THEN s ELSE SubSeq(s, Len(s) - n + 1, Len(s))

-----------------------------------------------------------------------------
(* Dates: new Date().toISOString().slice(0, 10) and new Date(str).getTime() *)

MsPerDay == 86400000

\* the proleptic Gregorian date of a day number (days since 1970-01-01)
CivilFromDays(z0) ==
    LET z   == z0 + 719468
        era == z \div 146097
        doe == z - era * 146097
        yoe == (doe - doe \div 1460 + doe \div 36524 - doe \div 146096) \div 365
        doy == doe - (365 * yoe + yoe \div 4 - yoe \div 100)
        mp  == (5 * doy + 2) \div 153
        d   == doy - (153 * mp + 2) \div 5 + 1
        m   == IF mp < 10 THEN mp + 3 ELSE mp - 9
        y   == yoe + era * 400 + (IF m <= 2 THEN 1 ELSE 0)
    IN  [y |-> y, m |-> m, d |-> d]

DaysFromCivil(y0, m, d) ==
    LET y   == IF m <= 2 THEN y0 - 1 ELSE y0
        era == y \div 400
        yoe == y - era * 400
        doy == (153 * (IF m > 2 THEN m - 3 ELSE m + 9) + 2) \div 5 + d - 1
        doe == yoe * 365 + yoe \div 4 - yoe \div 100 + doy
    IN  era * 146097 + doe - 719468

\* a number in decimal, zero-padded to width w
RECURSIVE Pad(_, _)
Pad(n, w) ==
    IF w = 0 THEN << >> ELSE Append(Pad(n \div 10, w - 1), Digit[(n % 10) + 1])

DigitValue(c) == (CHOOSE i \in DOMAIN Digit : Digit[i] = c) - 1

RECURSIVE ParseInt(_)
ParseInt(s) ==
    IF s = << >> THEN 0
    ELSE 10 * ParseInt(SubSeq(s, 1, Len(s) - 1)) + DigitValue(s[Len(s)])

\* t.toISOString().slice(0, 10): "YYYY-MM-DD" of the UTC day
IsoDate(t) ==
    LET c == CivilFromDays(t.day)
    IN  Pad(c.y, 4) \o << "-" >> \o Pad(c.m, 2) \o << "-" >> \o Pad(c.d, 2)

\* new Date("YYYY-MM-DD").getTime(): midnight UTC of that day
DateTime(str) ==
    [ day |-> DaysFromCivil(ParseInt(SubSeq(str, 1, 4)),
                            ParseInt(SubSeq(str, 6, 7)),
                            ParseInt(SubSeq(str, 9, 10))),
      ms  |-> 0 ]

\* t - n * 86400000
MinusDays(t, n) == [ day |-> t.day - n, ms |-> t.ms ]

\* a >= b on epoch times
TimeGeq(a, b) == a.day > b.day \/ (a.day = b.day /\ a.ms >= b.ms)

-----------------------------------------------------------------------------
(* ContentTracker (src/content-tracker.js, lines 6-114) *)

MaxRecentScriptures == 180      \* record: recentScriptures.slice(-180)
LookbackDays        == 21       \* isScriptureFresh(reference, lookbackDays = 21)
ThresholdTenths     == 7        \* isTitleUnique(newTitle, threshold = 0.7)
BlockTitles         == 10       \* getRecentBlocklists: titles.slice(-10)
BlockScriptures     == 30       \* getRecentBlocklists: recentScriptures.slice(-30)

ExactTitleMatch   == "Exact title match"
TitleTooSimilar   == "Title too similar"
ContentDuplicated == "Content body duplicated"
ScriptureUsed     == "Scripture used in last 21 days"

RockSolid == << "r","o","c","k","-","s","o","l","i","d" >>

\* the fresh record load() returns when there is no readable file
EmptyData(t) ==
    [ titles              |-> << >>,
      keyPhrases          |-> << >>,
      scriptureReferences |-> << >>,
      themes              |-> << >>,
      contentHashes       |-> << >>,
      recentScriptures    |-> << >>,
      lastUpdated         |-> t,
      totalDevotionals    |-> 0 ]

\* content_tracker.json: absent, unparsable, or the JSON of a data record
FileMissing    == [ exists |-> FALSE ]
FileCorrupt    == [ exists |-> TRUE, parses |-> FALSE ]
FileOf(d)      == [ exists |-> TRUE, parses |-> TRUE, json |-> d ]

\* a load that lets the SyntaxError of JSON.parse escape
LoadThrowing(f, t) ==
    IF ~f.exists THEN EmptyData(t)
    ELSE IF f.parses THEN f.json ELSE [ error |-> "SyntaxError" ]

Load(f, t) ==
    IF f.exists /\ f.parses THEN f.json ELSE EmptyData(t)

\* a save that stamps the time and leaves the count as it was loaded
SaveKeepingTotals(d, t) ==
    [ d EXCEPT !.lastUpdated = t ]

\* save(), the in-memory part: the record that is then written whole
Save(d, t) ==
    [ d EXCEPT !.lastUpdated = t, !.totalDevotionals = Len(d.titles) ]

Normalize(text) ==
    Trim(CollapseSpaces(BlankPunctuation(ToLowerCase(text))))

\* a Set of words that keeps the short ones
WordsOfAnyLength(text) ==
    Range(SplitNonWord(Normalize(text))) \ { << >> }

\* the Set of the words longer than 3 characters
Words(text) ==
    { w \in Range(SplitNonWord(Normalize(text))) : Len(w) > 3 }

\* an overlap measured against the longer title instead of the union
SimOverLonger(a, b) ==
    LET A == Words(a)
        B == Words(b)
        n == IF Cardinality(A) >= Cardinality(B) THEN Cardinality(A)
                                                 ELSE Cardinality(B)
    IN  [ inter |-> Cardinality({ x \in A : x \in B }),
          uni   |-> IF n = 0 THEN 1 ELSE n ]

\* an overlap measured against the words of the first text alone
SimOverFirst(a, b) ==
    LET A == Words(a)
        B == Words(b)
        n == Cardinality(A)
    IN  [ inter |-> Cardinality({ x \in A : x \in B }),
          uni   |-> IF n = 0 THEN 1 ELSE n ]

\* an overlap that takes two texts without words for identical
SimEmptyIsOne(a, b) ==
    LET A == Words(a)
        B == Words(b)
        n == Cardinality(A \cup B)
    IN  IF n = 0 THEN [ inter |-> 1, uni |-> 1 ]
        ELSE [ inter |-> Cardinality({ x \in A : x \in B }), uni |-> n ]

\* sim(a, b) = inter / uni, kept as the two integers of the quotient
Sim(a, b) ==
    LET A == Words(a)
        B == Words(b)
        n == Cardinality(A \cup B)
    IN  [ inter |-> Cardinality({ x \in A : x \in B }),
          uni   |-> IF n = 0 THEN 1 ELSE n ]

\* a comparison that also refuses a similarity equal to the threshold
SimReaches(a, b, tenths) ==
    LET q == Sim(a, b) IN q.inter * 10 >= tenths * q.uni

\* sim(a, b) > tenths / 10.  The JavaScript compares the doubles nearest to
\* inter / uni and to 0.7; for these small integers the two doubles compare
\* as the exact quotients do.
SimExceeds(a, b, tenths) ==
    LET q == Sim(a, b) IN q.inter * 10 > tenths * q.uni

\* crypto sha1 of the normalized text, taken as collision-free
Hash(text) == [ sha1 |-> Normalize(text) ]

\* the first stored title, in order, that is equal or too similar decides
IsTitleUnique(d, newTitle, tenths) ==
    LET n    == Normalize(newTitle)
        m(i) == Normalize(d.titles[i].title)
        hits == { i \in DOMAIN d.titles :
                    n = m(i) \/ SimExceeds(n, m(i), tenths) }
    IN  IF hits = { } THEN [ ok |-> TRUE ]
        ELSE LET i == CHOOSE j \in hits : \A k \in hits : j <= k
             IN  IF n = m(i)
                 THEN [ ok |-> FALSE, reason |-> ExactTitleMatch,
                        similar |-> d.titles[i].title ]
                 ELSE [ ok |-> FALSE, reason |-> TitleTooSimilar,
                        similar |-> d.titles[i].title ]

\* a check that looks at the latest stored hash only
IsContentFreshAgainstLast(d, content) ==
    LET h == Hash(content)
        n == Len(d.contentHashes)
    IN  IF n = 0 \/ d.contentHashes[n].hash # h THEN [ ok |-> TRUE ]
        ELSE [ ok |-> FALSE, reason |-> ContentDuplicated,
               similarDate |-> d.contentHashes[n].dateUsed ]

IsContentFresh(d, content) ==
    LET h    == Hash(content)
        hits == { i \in DOMAIN d.contentHashes : d.contentHashes[i].hash = h }
    IN  IF hits = { } THEN [ ok |-> TRUE ]
        ELSE LET i == CHOOSE j \in hits : \A k \in hits : j <= k
             IN  [ ok |-> FALSE, reason |-> ContentDuplicated,
                   similarDate |-> d.contentHashes[i].dateUsed ]

\* a window that leaves out the entry dated exactly at the cutoff
RecentIndexesAfterCutoff(d, t, lookbackDays) ==
    LET cutoff == MinusDays(t, lookbackDays)
    IN  { i \in DOMAIN d.recentScriptures :
            ~TimeGeq(cutoff, DateTime(d.recentScriptures[i].dateUsed)) }

\* the entries of recentScriptures dated at or after the cutoff
RecentIndexes(d, t, lookbackDays) ==
    LET cutoff == MinusDays(t, lookbackDays)
    IN  { i \in DOMAIN d.recentScriptures :
            TimeGeq(DateTime(d.recentScriptures[i].dateUsed), cutoff) }

IsScriptureFresh(d, reference, t, lookbackDays) ==
    IF reference = << >> THEN [ ok |-> TRUE ]
    ELSE LET hits == { i \in RecentIndexes(d, t, lookbackDays) :
                         Normalize(d.recentScriptures[i].reference)
                           = Normalize(reference) }
         IN  IF hits = { } THEN [ ok |-> TRUE ]
             ELSE LET i == CHOOSE j \in hits : \A k \in hits : j <= k
                  IN  [ ok |-> FALSE, reason |-> ScriptureUsed,
                        lastUsed |-> d.recentScriptures[i].dateUsed ]

\* a validate that looks at the reference first, then the body, then the
\* title
ValidateReferenceFirst(d, devotional, t) ==
    LET s == IsScriptureFresh(d, devotional.scriptureReference, t, LookbackDays)
    IN  IF ~s.ok THEN s
        ELSE LET c == IsContentFresh(d, devotional.content)
             IN  IF ~c.ok THEN c
                 ELSE LET tc == IsTitleUnique(d, devotional.title, ThresholdTenths)
                      IN  IF ~tc.ok THEN tc ELSE [ ok |-> TRUE ]

Validate(d, devotional, t) ==
    LET tc == IsTitleUnique(d, devotional.title, ThresholdTenths)
    IN  IF ~tc.ok THEN tc
        ELSE LET c == IsContentFresh(d, devotional.content)
             IN  IF ~c.ok THEN c
                 ELSE LET s == IsScriptureFresh(d, devotional.scriptureReference,
                                                t, LookbackDays)
                      IN  IF ~s.ok THEN s ELSE [ ok |-> TRUE ]

\* a cap of 10 entries instead of 180
PushRecentCappedAtTen(recent, entry) ==
    SliceLast(Append(recent, entry), 10)

\* a cap that keeps the oldest entries instead of the latest
PushRecentKeepingOldest(recent, entry) ==
    LET pushed == Append(recent, entry)
    IN  IF Len(pushed) > MaxRecentScriptures
        THEN SubSeq(pushed, 1, MaxRecentScriptures)
        ELSE pushed

\* recentScriptures after the push of record(): capped by slice(-180)
PushRecent(recent, entry) ==
    LET pushed == Append(recent, entry)
    IN  IF Len(pushed) > MaxRecentScriptures
        THEN SliceLast(pushed, MaxRecentScriptures)
        ELSE pushed

\* a record that files a theme entry for a devotional without theme too
RecordAlwaysThemed(d, devotional, t) ==
    LET date  == IF devotional.date # << >> THEN devotional.date ELSE IsoDate(t)
        theme == IF devotional.theme # << >> THEN devotional.theme ELSE RockSolid
        hasRef   == devotional.scriptureReference # << >>
        hasTheme == TRUE
    IN  [ d EXCEPT
            !.titles = Append(@, [ title |-> devotional.title,
                                   dateUsed |-> date, theme |-> theme ]),
            !.contentHashes = Append(@, [ hash |-> Hash(devotional.content),
                                          dateUsed |-> date ]),
            !.scriptureReferences =
                IF hasRef
                THEN Append(@, [ reference |-> devotional.scriptureReference,
                                 dateUsed |-> date, theme |-> theme ])
                ELSE @,
            !.recentScriptures =
                IF hasRef
                THEN PushRecent(@, [ reference |-> devotional.scriptureReference,
                                     dateUsed |-> date ])
                ELSE @,
            !.themes =
                IF hasTheme
                THEN Append(@, [ category |-> devotional.theme,
                                 dateUsed |-> date, title |-> devotional.title ])
                ELSE @ ]

\* record(devotional) up to, not including, its final save()
Record(d, devotional, t) ==
    LET date  == IF devotional.date # << >> THEN devotional.date ELSE IsoDate(t)
        theme == IF devotional.theme # << >> THEN devotional.theme ELSE RockSolid
        hasRef   == devotional.scriptureReference # << >>
        hasTheme == devotional.theme # << >>
    IN  [ d EXCEPT
            !.titles = Append(@, [ title |-> devotional.title,
                                   dateUsed |-> date, theme |-> theme ]),
            !.contentHashes = Append(@, [ hash |-> Hash(devotional.content),
                                          dateUsed |-> date ]),
            !.scriptureReferences =
                IF hasRef
                THEN Append(@, [ reference |-> devotional.scriptureReference,
                                 dateUsed |-> date, theme |-> theme ])
                ELSE @,
            !.recentScriptures =
                IF hasRef
                THEN PushRecent(@, [ reference |-> devotional.scriptureReference,
                                     dateUsed |-> date ])
                ELSE @,
            !.themes =
                IF hasTheme
                THEN Append(@, [ category |-> devotional.theme,
                                 dateUsed |-> date, title |-> devotional.title ])
                ELSE @ ]

\* entries.map(t => t.title), entries.map(s => s.reference)
RECURSIVE TitlesOf(_)
TitlesOf(entries) ==
    IF entries = << >> THEN << >>
    ELSE << Head(entries).title >> \o TitlesOf(Tail(entries))

RECURSIVE ReferencesOf(_)
ReferencesOf(entries) ==
    IF entries = << >> THEN << >>
    ELSE << Head(entries).reference >> \o ReferencesOf(Tail(entries))

GetRecentBlocklists(d) ==
    [ titles     |-> TitlesOf(SliceLast(d.titles, BlockTitles)),
      scriptures |-> ReferencesOf(SliceLast(d.recentScriptures, BlockScriptures)) ]

-----------------------------------------------------------------------------
(* The regeneration controller (src/unnamed/part_001, lines 179-332) *)

MAX_TRIES        == 5           \* const MAX_TRIES = 5
PromptTitles     == 15          \* [...block.titles, candidate.title].slice(-15)
PromptScriptures == 45          \* [...block.scriptures, ...].slice(-45)

MaxRuns == 2                    \* runs of the script that are followed

Null == [ null |-> TRUE ]

\* cleanup(s): String(s || '').replace(/\n{3,}/g, '\n\n').trim()
Cleanup(s) == Trim(CollapseNewlines(s))

\* buildSystemPrompt(block): the fixed text apart, the prompt is the two
\* avoid-lists; extra is the "Additional constraint from last attempt"
\* sentence appended to it ("" when there is none)
BuildSystemPrompt(blk) ==
    [ titles |-> blk.titles, scriptures |-> blk.scriptures, extra |-> "" ]

\* a loop test that lets one try too many through
LoopContinuesOffByOne(att) == att <= MAX_TRIES

\* while (attempt < MAX_TRIES)
LoopContinues(att) == att < MAX_TRIES

\* if (!final)
NeedsFallback(fin) == fin = Null

\* a script that gives up when every try was refused
AfterLoopTestGivingUp(att, fin) ==
    IF LoopContinues(att) THEN "draft"
    ELSE IF NeedsFallback(fin) THEN "failed" ELSE "write"

\* where the script waits next once the loop test is reached: for another
\* draft, for the fallback's answer, or for nothing more (it writes)
AfterLoopTest(att, fin) ==
    IF LoopContinues(att) THEN "draft"
    ELSE IF NeedsFallback(fin) THEN "fallback" ELSE "write"

\* the candidate built from a draft
MakeCandidate(draft, day) ==
    [ date               |-> day,
      title              |-> Cleanup(draft.title),
      scriptureReference |-> Cleanup(draft.scriptureReference),
      content            |-> Cleanup(draft.content),
      theme              |-> Cleanup(IF draft.theme # << >> THEN draft.theme
                                     ELSE RockSolid) ]

\* a script that keeps the candidate whatever the check said
FinalAfterCheckKeepingAny(chk, cand, fin) == cand

\* if (check.ok) { final = candidate; break; }
FinalAfterCheck(chk, cand, fin) == IF chk.ok THEN cand ELSE fin

\* lastReason = check.reason || 'similarity'
ReasonOf(chk) == IF chk.reason # "" THEN chk.reason ELSE "similarity"

\* the prompt rebuilt after a rejection
Tighten(blk, cand, reason) ==
    [ BuildSystemPrompt(
        [ titles     |-> SliceLast(Append(blk.titles, cand.title), PromptTitles),
          scriptures |-> SliceLast(Append(blk.scriptures, cand.scriptureReference),
                                   PromptScriptures) ])
      EXCEPT !.extra = reason ]

\* the prompt of the fallback call
FallbackPrompt(blk) == BuildSystemPrompt(blk)

\* the fallback candidate: the title suffixed with " - <today>" (an em dash)
FallbackCandidate(fb, day) ==
    [ date               |-> day,
      title              |-> Cleanup(fb.title) \o << " ", EmDash, " " >> \o day,
      scriptureReference |-> Cleanup(fb.scriptureReference),
      content            |-> Cleanup(fb.content),
      theme              |-> Cleanup(IF fb.theme # << >> THEN fb.theme
                                     ELSE RockSolid) ]

\* fs.existsSync(outFile)
ArtifactExists(arts, day) == day \in arts

-----------------------------------------------------------------------------
(* What the generator may answer, and when the script is started *)

T_StandFirm     == << "S","t","a","n","d"," ","F","i","r","m" >>
T_StandFirmNow  == << " ","s","t","a","n","d"," ","f","i","r","m",","," ","n","o","w","!" >>
T_QuietStrength == << "Q","u","i","e","t"," ","S","t","r","e","n","g","t","h" >>
R_John          == << "J","o","h","n"," ","3",":","1","6" >>
R_JohnLoose     == << "j","o","h","n"," "," ","3",".","1","6" >>
B_Hold          == << "H","o","l","d"," ","f","a","s","t","." >>
B_Keep          == << "K","e","e","p"," ","g","o","i","n","g","." >>
B_KeepLoose     == << "k","e","e","p",NL,NL,NL,"G","O","I","N","G",NL >>
Th_Faith        == << "f","a","i","t","h" >>

Draft(t, r, c, th) ==
    [ title |-> t, scriptureReference |-> r, content |-> c, theme |-> th ]

\* Against a history holding one of the three, the other two are refused:
\* the first two titles are too similar, the last two bodies and the first
\* and last references are equal once normalized.
DraftPool ==
    { Draft(T_StandFirm,     R_John,      B_Hold,      Th_Faith),
      Draft(T_StandFirmNow,  << >>,       B_Keep,      << >>),
      Draft(T_QuietStrength, R_JohnLoose, B_KeepLoose, Th_Faith) }

StartTime == [ day |-> DaysFromCivil(2026, 11, 2), ms |-> 0 ]

\* days between two starts of the script: again the same day, the next
\* day, or when the cooldown of the day before has run out
DayGaps == { 0, 1, LookbackDays + 1 }

StartTimes(t) == { [ day |-> t.day + g, ms |-> t.ms ] : g \in DayGaps }

-----------------------------------------------------------------------------
(* The script.  It runs without interruption from one await to the next;   *)
(* the steps after the last await (write, record, save) are kept apart so  *)
(* that each of them can fail.                                             *)

ctl   == << today, block, system, attempt, final, lastReason, candidate, check >>
calls == << draftCalls, fallbackCalls, lastPrompt, response >>
tally == << validations, rejections, rejected >>

NoBlock == [ titles |-> << >>, scriptures |-> << >> ]

\* the variables of the script before a process has been started
AtRest ==
    /\ today = << >>
    /\ block = NoBlock
    /\ system = BuildSystemPrompt(NoBlock)
    /\ attempt = 0
    /\ final = Null
    /\ lastReason = ""
    /\ runs = 0
    /\ draftCalls = 0
    /\ fallbackCalls = 0
    /\ lastPrompt = Null
    /\ response = Null
    /\ validations = 0
    /\ rejections = 0
    /\ rejected = { }
    /\ fileAtStart = FileMissing
    /\ failure = ""

Init ==
    /\ now = StartTime
    /\ file = FileMissing
    /\ artifacts = { }
    /\ data = EmptyData(StartTime)
    /\ pc = "idle"
    /\ candidate = Null
    /\ check = Null
    /\ refLog = << >>
    /\ AtRest

Stopped == pc \in { "idle", "done", "failed", "skipped" }

\* a new process: nothing of the last one is left but the files
Launch(t) ==
    /\ now' = t
    /\ today' = IsoDate(t)
    /\ runs' = runs + 1
    /\ attempt' = 0
    /\ final' = Null
    /\ lastReason' = ""
    /\ candidate' = Null
    /\ check' = Null
    /\ draftCalls' = 0
    /\ fallbackCalls' = 0
    /\ lastPrompt' = Null
    /\ response' = Null
    /\ validations' = 0
    /\ rejections' = 0
    /\ rejected' = { }
    /\ fileAtStart' = file
    /\ failure' = ""
    /\ UNCHANGED << file, artifacts, refLog >>

\* lines 193-198: today's devotional exists, process.exit(0)
SkipRun ==
    /\ Stopped
    /\ runs < MaxRuns
    /\ \E t \in StartTimes(now) :
         /\ ArtifactExists(artifacts, IsoDate(t))
         /\ Launch(t)
    /\ pc' = "skipped"
    /\ data' = EmptyData(now')
    /\ block' = NoBlock
    /\ system' = BuildSystemPrompt(NoBlock)

\* a script that goes on although today's devotional exists
StartRunOverExisting ==
    /\ Stopped
    /\ runs < MaxRuns
    /\ \E t \in StartTimes(now) : Launch(t)
    /\ data' = Load(file, now')
    /\ block' = GetRecentBlocklists(data')
    /\ system' = BuildSystemPrompt(block')
    /\ pc' = AfterLoopTest(attempt', final')

\* lines 193-198 and 256-268: load the tracker, build the first prompt
StartRun ==
    /\ Stopped
    /\ runs < MaxRuns
    /\ \E t \in StartTimes(now) :
         /\ ~ArtifactExists(artifacts, IsoDate(t))
         /\ Launch(t)
    /\ data' = Load(file, now')
    /\ block' = GetRecentBlocklists(data')
    /\ system' = BuildSystemPrompt(block')
    /\ pc' = AfterLoopTest(attempt', final')

\* lines 269-281: callOpenAI(system, user) answers with a draft
CallDraft ==
    /\ pc = "draft"
    /\ attempt' = attempt + 1
    /\ draftCalls' = draftCalls + 1
    /\ lastPrompt' = system
    /\ \E d \in DraftPool :
         /\ response' = d
         /\ candidate' = MakeCandidate(d, today)
    /\ pc' = "validate"
    /\ UNCHANGED << now, file, artifacts, data, today, block, system, final,
                    lastReason, check, runs, fallbackCalls, tally,
                    fileAtStart, failure, refLog >>

\* a script that takes a failed call for a refused draft and tries again
DraftFailsRetrying ==
    /\ pc = "draft"
    /\ attempt' = attempt + 1
    /\ draftCalls' = draftCalls + 1
    /\ lastPrompt' = system
    /\ pc' = AfterLoopTest(attempt', final)
    /\ failure' = "generator"
    /\ UNCHANGED << now, file, artifacts, data, today, block, system, final,
                    lastReason, candidate, check, runs, fallbackCalls,
                    response, tally, fileAtStart, refLog >>

\* line 271 throws: the catch of line 329 ends the process with status 1
DraftFails ==
    /\ pc = "draft"
    /\ attempt' = attempt + 1
    /\ draftCalls' = draftCalls + 1
    /\ lastPrompt' = system
    /\ pc' = "failed"
    /\ failure' = "generator"
    /\ UNCHANGED << now, file, artifacts, data, today, block, system, final,
                    lastReason, candidate, check, runs, fallbackCalls,
                    response, tally, fileAtStart, refLog >>

\* a loop that counts its tries anew after every refusal
ValidateCandidateStartingOver ==
    /\ pc = "validate"
    /\ check' = Validate(data, candidate, now)
    /\ validations' = validations + 1
    /\ final' = FinalAfterCheck(check', candidate, final)
    /\ IF check'.ok
       THEN /\ pc' = "write"
            /\ UNCHANGED << lastReason, system, rejections, rejected, attempt >>
       ELSE /\ lastReason' = ReasonOf(check')
            /\ system' = Tighten(block, candidate, lastReason')
            /\ rejections' = rejections + 1
            /\ rejected' = rejected \cup { candidate }
            /\ attempt' = 0
            /\ pc' = AfterLoopTest(attempt', final')
    /\ UNCHANGED << now, file, artifacts, data, today, block,
                    candidate, runs, calls, fileAtStart, failure, refLog >>

\* lines 283-296: validate the candidate; accept it, or tighten the prompt
\* and test the loop again
ValidateCandidate ==
    /\ pc = "validate"
    /\ check' = Validate(data, candidate, now)
    /\ validations' = validations + 1
    /\ final' = FinalAfterCheck(check', candidate, final)
    /\ IF check'.ok
       THEN /\ pc' = "write"
            /\ UNCHANGED << lastReason, system, rejections, rejected >>
       ELSE /\ lastReason' = ReasonOf(check')
            /\ system' = Tighten(block, candidate, lastReason')
            /\ rejections' = rejections + 1
            /\ rejected' = rejected \cup { candidate }
            /\ pc' = AfterLoopTest(attempt, final')
    /\ UNCHANGED << now, file, artifacts, data, today, block, attempt,
                    candidate, runs, calls, fileAtStart, failure, refLog >>

\* lines 297-308: callOpenAI answers the fallback call; its draft is taken
\* as it is, the date appended to its title
CallFallback ==
    /\ pc = "fallback"
    /\ fallbackCalls' = fallbackCalls + 1
    /\ lastPrompt' = FallbackPrompt(block)
    /\ \E fb \in DraftPool :
         /\ response' = fb
         /\ final' = FallbackCandidate(fb, today)
    /\ pc' = "write"
    /\ UNCHANGED << now, file, artifacts, data, today, block, system, attempt,
                    lastReason, candidate, check, runs, draftCalls, tally,
                    fileAtStart, failure, refLog >>

\* line 298 throws
FallbackFails ==
    /\ pc = "fallback"
    /\ fallbackCalls' = fallbackCalls + 1
    /\ lastPrompt' = FallbackPrompt(block)
    /\ pc' = "failed"
    /\ failure' = "generator"
    /\ UNCHANGED << now, file, artifacts, data, ctl, runs, draftCalls,
                    response, tally, fileAtStart, refLog >>

RefLogAfter(log, devotional) ==
    IF devotional.scriptureReference # << >>
    THEN Append(log, devotional.scriptureReference)
    ELSE log

\* lines 310-328: write the devotional, record it, save the tracker
WriteAndRecord ==
    /\ pc = "write"
    /\ artifacts' = artifacts \cup { today }
    /\ data' = Save(Record(data, final, now), now)
    /\ file' = FileOf(data')
    /\ refLog' = RefLogAfter(refLog, final)
    /\ pc' = "done"
    /\ UNCHANGED << now, ctl, runs, calls, tally, fileAtStart, failure >>

\* a script that records first and writes the devotional after
WriteFailsAfterRecord ==
    /\ pc = "write"
    /\ data' = Save(Record(data, final, now), now)
    /\ file' = FileOf(data')
    /\ pc' = "failed"
    /\ failure' = "artifact"
    /\ UNCHANGED << now, artifacts, ctl, runs, calls, tally, fileAtStart, refLog >>

\* line 326 throws: nothing is written
WriteFails ==
    /\ pc = "write"
    /\ pc' = "failed"
    /\ failure' = "artifact"
    /\ UNCHANGED << now, file, artifacts, data, ctl, runs, calls, tally,
                    fileAtStart, refLog >>

\* a script that catches the failed save and goes on to report success
SaveFailsSwallowed ==
    /\ pc = "write"
    /\ artifacts' = artifacts \cup { today }
    /\ data' = Save(Record(data, final, now), now)
    /\ pc' = "done"
    /\ failure' = "history"
    /\ UNCHANGED << now, file, ctl, runs, calls, tally, fileAtStart, refLog >>

\* the writeFileSync of save() throws: the devotional is on disk, the
\* tracker file is as it was
SaveFails ==
    /\ pc = "write"
    /\ artifacts' = artifacts \cup { today }
    /\ data' = Save(Record(data, final, now), now)
    /\ pc' = "failed"
    /\ failure' = "history"
    /\ UNCHANGED << now, file, ctl, runs, calls, tally, fileAtStart, refLog >>

\* the steps of a run in which every call and every write succeeds
RunStep ==
    \/ CallDraft
    \/ ValidateCandidate
    \/ CallFallback
    \/ WriteAndRecord

Next ==
    \/ SkipRun
    \/ StartRun
    \/ RunStep
    \/ DraftFails
    \/ FallbackFails
    \/ WriteFails
    \/ SaveFails

Spec == Init /\ [][Next]_vars

-----------------------------------------------------------------------------
(* The script started with FORCE_REGENERATE=true (src/generate-devotional.js, *)
(* lines 9-23): it does not stop when today's devotional exists.  Its loop,  *)
(* fallback, write and record (lines 92-163) are those of the script above.  *)

\* the day before the first start, on which one devotional was accepted
FirstDay == MinusDays(StartTime, 1)

FirstDevotional ==
    MakeCandidate(Draft(T_StandFirm, R_John, B_Hold, Th_Faith), IsoDate(FirstDay))

\* the files left by one accepted run on FirstDay
InitForced ==
    /\ now = StartTime
    /\ data = Save(Record(EmptyData(FirstDay), FirstDevotional, FirstDay), FirstDay)
    /\ file = FileOf(data)
    /\ artifacts = { IsoDate(FirstDay) }
    /\ pc = "idle"
    /\ candidate = Null
    /\ check = Null
    /\ refLog = RefLogAfter(<< >>, FirstDevotional)
    /\ AtRest

\* generate-devotional.js:16-23 with FORCE_REGENERATE: no exit on an
\* existing devotional; then the tracker is loaded and the prompt built
StartForced ==
    /\ Stopped
    /\ runs < MaxRuns
    /\ \E t \in StartTimes(now) : Launch(t)
    /\ data' = Load(file, now')
    /\ block' = GetRecentBlocklists(data')
    /\ system' = BuildSystemPrompt(block')
    /\ pc' = AfterLoopTest(attempt', final')

NextForced ==
    \/ StartForced
    \/ RunStep
    \/ DraftFails
    \/ FallbackFails
    \/ WriteFails
    \/ SaveFails

SpecForced == InitForced /\ [][NextForced]_vars

-----------------------------------------------------------------------------
(* The validator applied to stored histories.  A history is what record()  *)
(* leaves in content_tracker.json: title entries, content hashes and       *)
(* reference entries, each with the date of its devotional.                *)

MaxHistTitles == 2              \* stored titles of a history

\* String.prototype.toUpperCase (used to build inputs only)
ToUpperCase(s) == [ i \in 1 .. Len(s) |-> ToUpperChar(s[i]) ]

T_IronSharpens  == << "I","r","o","n"," ","S","h","a","r","p","e","n","s" >>
R_Psalm         == << "P","s","a","l","m"," ","2","3" >>
B_Rise          == << "R","i","s","e"," ","e","a","r","l","y","." >>

\* the sequences of at most n elements of pool
RECURSIVE SeqsUpTo(_, _)
SeqsUpTo(pool, n) ==
    IF n = 0 THEN { << >> }
    ELSE LET shorter == SeqsUpTo(pool, n - 1)
         IN  shorter \cup { Append(q, x) : q \in { r \in shorter : Len(r) = n - 1 },
                                           x \in pool }

\* the day, as record() writes it, of a devotional made age days before t
DayBefore(t, age) == IsoDate(MinusDays(t, age))

RECURSIVE TitleEntries(_, _)
TitleEntries(titles, t) ==
    IF titles = << >> THEN << >>
    ELSE Append(TitleEntries(SubSeq(titles, 1, Len(titles) - 1), t),
                [ title    |-> titles[Len(titles)],
                  dateUsed |-> DayBefore(t, 1),
                  theme    |-> RockSolid ])

RECURSIVE HashEntries(_, _)
HashEntries(bodies, t) ==
    IF bodies = << >> THEN << >>
    ELSE Append(HashEntries(SubSeq(bodies, 1, Len(bodies) - 1), t),
                [ hash     |-> Hash(bodies[Len(bodies)]),
                  dateUsed |-> DayBefore(t, 1) ])

RECURSIVE ReferenceEntries(_, _, _)
ReferenceEntries(reference, ages, t) ==
    IF ages = << >> THEN << >>
    ELSE Append(ReferenceEntries(reference, SubSeq(ages, 1, Len(ages) - 1), t),
                [ reference |-> reference,
                  dateUsed  |-> DayBefore(t, ages[Len(ages)]) ])

History(titles, bodies, reference, ages, t) ==
    [ EmptyData(t) EXCEPT
        !.titles           = TitleEntries(titles, t),
        !.contentHashes    = HashEntries(bodies, t),
        !.recentScriptures = ReferenceEntries(reference, ages, t),
        !.totalDevotionals = Len(titles) ]

\* the title the fallback recorded n days before t: the titles of two such
\* days share every word longer than 3 characters without being equal
FallbackTitle(t, n) ==
    FallbackCandidate(Draft(T_StandFirm, R_John, B_Hold, << >>),
                      DayBefore(t, n)).title

StoredTitles(t) == { FallbackTitle(t, 2), FallbackTitle(t, 1) }

StoredBodies == { << >>, << B_Hold >>, << B_Keep, B_Hold >> }

\* ages, in days, of the stored uses of one reference: around the cooldown
StoredAges ==
    { << >>,
      << LookbackDays - 1 >>, << LookbackDays >>, << LookbackDays + 1 >>,
      << LookbackDays + 1, LookbackDays - 1 >> }

\* Date.now(): at midnight, one millisecond later, one millisecond before
\* the next midnight
ClockTimes == { [ day |-> StartTime.day, ms |-> m ] : m \in { 0, 1, MsPerDay - 1 } }

CandidateTitles(t) ==
    { FallbackTitle(t, 1), ToUpperCase(FallbackTitle(t, 1)), T_IronSharpens }
CandidateRefs   == { << >>, R_JohnLoose, R_Psalm }
CandidateBodies == { B_Hold, B_KeepLoose, B_Rise }

InitValidate ==
    /\ now \in ClockTimes
    /\ \E ts \in SeqsUpTo(StoredTitles(now), MaxHistTitles), bs \in StoredBodies,
          ages \in StoredAges :
         data = History(ts, bs, R_John, ages, now)
    /\ file = FileOf(data)
    /\ artifacts = { }
    /\ pc = "ready"
    /\ candidate = Null
    /\ check = Null
    /\ refLog = << >>
    /\ AtRest

\* everything of the state but the candidate, the result and the position
frame == << now, file, artifacts, data, today, block, system, attempt, final,
            lastReason, runs, calls, tally, fileAtStart, failure, refLog >>

\* tracker.validate(candidate)
ApplyValidate ==
    /\ pc = "ready"
    /\ \E t \in CandidateTitles(now), r \in CandidateRefs, c \in CandidateBodies :
         candidate' = MakeCandidate(Draft(t, r, c, << >>), IsoDate(now))
    /\ check' = Validate(data, candidate', now)
    /\ pc' = "validated"
    /\ UNCHANGED frame

SpecValidate == InitValidate /\ [][ApplyValidate]_vars

-----------------------------------------------------------------------------
(* The title check and sim applied to titles of many words *)

MaxDiff == 4                    \* words replaced, dropped or added in a title

\* the i-th word: four letters, so that it counts for sim
Tok(i) == << "t","o","k", Lower[i] >>

BaseTokens ==
    << Tok(1), Tok(2), Tok(3), Tok(4), Tok(5), Tok(6), Tok(7), Tok(8), Tok(9),
       Tok(10) >>

RECURSIVE TokenRun(_, _)
TokenRun(lo, hi) ==
    IF lo > hi THEN << >> ELSE << Tok(lo) >> \o TokenRun(lo + 1, hi)

\* the words of the base title with its last r words replaced by new ones,
\* d more of its words dropped, and a new words added
Variant(r, d, a) ==
    SubSeq(BaseTokens, 1, Len(BaseTokens) - r - d)
        \o TokenRun(Len(BaseTokens) + 1, Len(BaseTokens) + r + a)

Variants ==
    { Variant(c[1], c[2], c[3]) :
        c \in { x \in (0..MaxDiff) \X (0..MaxDiff) \X (0..MaxDiff) :
                  x[1] + x[2] + x[3] <= MaxDiff } }

Plain(tokens) == Join(tokens, << " " >>)

\* the same words in capitals, set apart by commas, with an exclamation mark
Loud(tokens) == ToUpperCase(Join(tokens, << ",", " " >>)) \o << "!" >>

LongTitles ==
    { Plain(v) : v \in Variants }
        \cup { Loud(v) : v \in { w \in Variants : Len(w) = Len(BaseTokens) } }

StoredLongTitles == { Plain(BaseTokens), Plain(Variant(0, 0, 1)), T_QuietStrength }

InitTitles ==
    /\ now = StartTime
    /\ \E ts \in SeqsUpTo(StoredLongTitles, MaxHistTitles) :
         data = History(ts, << >>, R_John, << >>, now)
    /\ file = FileOf(data)
    /\ artifacts = { }
    /\ pc = "ready"
    /\ candidate = Null
    /\ check = Null
    /\ refLog = << >>
    /\ AtRest

\* tracker.isTitleUnique(title)
ApplyTitleCheck ==
    /\ pc = "ready"
    /\ \E t \in LongTitles : candidate' = [ title |-> t ]
    /\ check' = IsTitleUnique(data, candidate'.title, ThresholdTenths)
    /\ pc' = "titleChecked"
    /\ UNCHANGED frame

\* tracker.sim(normalize(title), normalize(stored title)), as isTitleUnique
\* calls it for a stored title
ApplySim ==
    /\ pc = "ready"
    /\ \E t \in LongTitles, i \in DOMAIN data.titles :
         /\ candidate' = [ title |-> t ]
         /\ check' = [ stored |-> data.titles[i].title,
                       sim    |-> Sim(Normalize(t), Normalize(data.titles[i].title)) ]
    /\ pc' = "measured"
    /\ UNCHANGED frame

NextTitles == ApplyTitleCheck \/ ApplySim

SpecTitles == InitTitles /\ [][NextTitles]_vars

-----------------------------------------------------------------------------
(* record() called again and again on one tracker *)

MaxRecords == 200               \* record() calls that are followed
MaxBlanks  == 1                 \* those of them without a reference

\* the k-th reference recorded: all of them differ
Ref(k) == << "P","s"," " >> \o Pad(k, 3)

Recorded(reference, t) ==
    [ date               |-> IsoDate(t),
      title              |-> T_StandFirm,
      scriptureReference |-> reference,
      content            |-> B_Hold,
      theme              |-> << >> ]

InitRecord ==
    /\ now = StartTime
    /\ data = EmptyData(StartTime)
    /\ file = FileMissing
    /\ artifacts = { }
    /\ pc = "recording"
    /\ candidate = Null
    /\ check = Null
    /\ refLog = << >>
    /\ AtRest

RecordStep(devotional) ==
    /\ pc = "recording"
    /\ Len(data.titles) < MaxRecords
    /\ candidate' = devotional
    /\ data' = Save(Record(data, devotional, now), now)
    /\ file' = FileOf(data')
    /\ refLog' = RefLogAfter(refLog, devotional)
    /\ UNCHANGED << now, artifacts, pc, today, block, system, attempt, final,
                    lastReason, check, runs, calls, tally, fileAtStart, failure >>

\* record() of a devotional with a reference not recorded before
RecordReference == RecordStep(Recorded(Ref(Len(refLog) + 1), now))

\* record() of a devotional without a reference
RecordBlank ==
    /\ Len(data.titles) - Len(refLog) < MaxBlanks
    /\ RecordStep(Recorded(<< >>, now))

NextRecord == RecordReference \/ RecordBlank

SpecRecord == InitRecord /\ [][NextRecord]_vars

MaxThemed == 2                  \* record() calls of a devotional with a theme

\* record() of a devotional that has a theme and no date, with a new
\* reference or with none; it is called on a history without references and
\* on one whose recentScriptures is full
RecordThemed ==
    /\ Len(data.themes) < MaxThemed
    /\ Len(refLog) \in { 0, MaxRecentScriptures }
    /\ \E reference \in { Ref(Len(refLog) + 1), << >> } :
         RecordStep([ Recorded(reference, now) EXCEPT !.theme = Th_Faith,
                                                      !.date = << >> ])

NextAppend == RecordReference \/ RecordBlank \/ RecordThemed

SpecAppend == InitRecord /\ [][NextAppend]_vars

-----------------------------------------------------------------------------
(* The tracker of a script that is run once every day: each day a          *)
(* devotional with a reference of its own is recorded, and before that a   *)
(* candidate that takes up the reference of an earlier day is validated.   *)

\* how many days ago the reference of the candidate was recorded
AgesAsked == { 1, LookbackDays - 1, LookbackDays, LookbackDays + 1 }

\* a candidate with a title and a body of its own and the reference of the
\* k-th day
TakingUp(k, t) ==
    MakeCandidate(Draft(T_IronSharpens, Ref(k), B_Rise, << >>), IsoDate(t))

\* the numbers of recorded devotionals at which a candidate is validated:
\* the first weeks, and from the day recentScriptures is nearly full on
ValidatedAt(n) == n <= LookbackDays + 1 \/ n >= MaxRecentScriptures - 1

\* tracker.validate(candidate), before the day's devotional is recorded
DailyValidate ==
    /\ pc = "recording"
    /\ check = Null
    /\ ValidatedAt(Len(refLog))
    /\ \E age \in AgesAsked :
         /\ age <= Len(refLog)
         /\ candidate' = TakingUp(Len(refLog) + 1 - age, now)
    /\ check' = Validate(data, candidate', now)
    /\ UNCHANGED << now, file, artifacts, data, pc, today, block, system, attempt,
                    final, lastReason, runs, calls, tally, fileAtStart, failure,
                    refLog >>

\* tracker.record(devotional) of the day's devotional; the next run is a
\* day later, at midnight or just before the following one
DailyRecord ==
    /\ pc = "recording"
    /\ Len(data.titles) < MaxRecords
    /\ LET devotional == Recorded(Ref(Len(refLog) + 1), now)
       IN  /\ data' = Save(Record(data, devotional, now), now)
           /\ refLog' = RefLogAfter(refLog, devotional)
    /\ file' = FileOf(data')
    /\ candidate' = Null
    /\ check' = Null
    /\ \E ms \in { 0, MsPerDay - 1 } : now' = [ day |-> now.day + 1, ms |-> ms ]
    /\ UNCHANGED << artifacts, pc, today, block, system, attempt, final,
                    lastReason, runs, calls, tally, fileAtStart, failure >>

NextDaily == DailyValidate \/ DailyRecord

SpecDaily == InitRecord /\ [][NextDaily]_vars

-----------------------------------------------------------------------------
(* Several processes of the controller at a time (part_001:179-332). Each  *)
(* has a tracker of its own, loaded when it starts; pc, today, data, final *)
(* and fileAtStart hold one value per process.                             *)

MaxProcs    == 2                \* processes that may run at the same time
MaxLaunches == 3                \* processes that are started
MaxDays     == 2                \* days that begin after the first

Procs == 1 .. MaxProcs

InitOverlap ==
    /\ now = StartTime
    /\ file = FileMissing
    /\ artifacts = { }
    /\ data = [ p \in Procs |-> Null ]
    /\ pc = [ p \in Procs |-> "idle" ]
    /\ today = [ p \in Procs |-> << >> ]
    /\ final = [ p \in Procs |-> Null ]
    /\ fileAtStart = [ p \in Procs |-> Null ]
    /\ runs = 0
    /\ refLog = << >>
    /\ block = NoBlock
    /\ system = BuildSystemPrompt(NoBlock)
    /\ attempt = 0
    /\ lastReason = ""
    /\ candidate = Null
    /\ check = Null
    /\ draftCalls = 0
    /\ fallbackCalls = 0
    /\ lastPrompt = Null
    /\ response = Null
    /\ validations = 0
    /\ rejections = 0
    /\ rejected = << >>
    /\ failure = ""

\* lines 193-198 of a process that finds the day's devotional: exit(0)
OverlapSkip(p) ==
    /\ pc[p] = "idle"
    /\ runs < MaxLaunches
    /\ IsoDate(now) \in artifacts
    /\ runs' = runs + 1
    /\ UNCHANGED << now, file, artifacts, data, pc, today, final, fileAtStart,
                    refLog, block, system, attempt, lastReason, candidate, check,
                    calls, tally, failure >>

\* lines 193-198 and 257 of a process that does not: new ContentTracker()
\* loads the file before the first await
OverlapStart(p) ==
    /\ pc[p] = "idle"
    /\ runs < MaxLaunches
    /\ IsoDate(now) \notin artifacts
    /\ runs' = runs + 1
    /\ today' = [ today EXCEPT ![p] = IsoDate(now) ]
    /\ data' = [ data EXCEPT ![p] = Load(file, now) ]
    /\ fileAtStart' = [ fileAtStart EXCEPT ![p] = [ file |-> file, run |-> runs' ] ]
    /\ pc' = [ pc EXCEPT ![p] = "running" ]
    /\ UNCHANGED << now, file, artifacts, final, refLog, block, system, attempt,
                    lastReason, candidate, check, calls, tally, failure >>

\* what is noted of a process that has recorded: its reference, the file and
\* the number it started with, and how many processes were started before it
\* recorded
Finished(p, devotional) ==
    [ reference |-> devotional.scriptureReference,
      date      |-> devotional.date,
      loaded    |-> fileAtStart[p].file,
      run       |-> fileAtStart[p].run,
      started   |-> runs ]

\* a process that takes up the file again before it records
OverlapFinishReloading(p) ==
    /\ pc[p] = "running"
    /\ LET devotional == [ Recorded(Ref(fileAtStart[p].run), now)
                             EXCEPT !.date = today[p] ]
       IN  /\ final' = [ final EXCEPT ![p] = devotional ]
           /\ data' = [ data EXCEPT ![p] = Save(Record(Load(file, now), devotional, now), now) ]
           /\ refLog' = Append(refLog, Finished(p, devotional))
    /\ artifacts' = artifacts \cup { today[p] }
    /\ file' = FileOf(data'[p])
    /\ pc' = [ pc EXCEPT ![p] = "idle" ]
    /\ UNCHANGED << now, today, fileAtStart, runs, block, system, attempt,
                    lastReason, candidate, check, calls, tally, failure >>

\* lines 296-327 of a process that has its devotional: the file of the day
\* is written, and tracker.record(final) saves the history this process
\* loaded with one entry more
OverlapFinish(p) ==
    /\ pc[p] = "running"
    /\ LET devotional == [ Recorded(Ref(fileAtStart[p].run), now)
                             EXCEPT !.date = today[p] ]
       IN  /\ final' = [ final EXCEPT ![p] = devotional ]
           /\ data' = [ data EXCEPT ![p] = Save(Record(data[p], devotional, now), now) ]
           /\ refLog' = Append(refLog, Finished(p, devotional))
    /\ artifacts' = artifacts \cup { today[p] }
    /\ file' = FileOf(data'[p])
    /\ pc' = [ pc EXCEPT ![p] = "idle" ]
    /\ UNCHANGED << now, today, fileAtStart, runs, block, system, attempt,
                    lastReason, candidate, check, calls, tally, failure >>

\* the next day begins
OverlapTick ==
    /\ now.day < StartTime.day + MaxDays
    /\ now' = [ now EXCEPT !.day = @ + 1 ]
    /\ UNCHANGED << file, artifacts, data, pc, today, final, fileAtStart, runs,
                    refLog, block, system, attempt, lastReason, candidate, check,
                    calls, tally, failure >>

NextOverlap ==
    \/ \E p \in Procs : OverlapSkip(p)
    \/ \E p \in Procs : OverlapStart(p)
    \/ \E p \in Procs : OverlapFinish(p)
    \/ OverlapTick

SpecOverlap == InitOverlap /\ [][NextOverlap]_vars

-----------------------------------------------------------------------------
(* The multi-provider driver (generate-devotional.js:231-477). block holds *)
(* the environment of the process, data the loop of main: the place in     *)
(* PROVIDERS and the errors pushed so far. refLog notes, in order, every   *)
(* request sent and every devotional written. A content is held as its     *)
(* number of words, none for the empty string.                             *)

MAX_ATTEMPTS_PER_PROVIDER == 2  \* DEVOTIONAL_MAX_ATTEMPTS || 2
MinWords == 120                 \* if (wc < 120) throw

KnownProviders == { "deepseek", "openai", "groq" }

\* DEVOTIONAL_PROVIDERS, split, trimmed, lower-cased, without empty names
ProviderLists ==
    { << "deepseek", "openai", "groq" >>,
      << "groq", "deepseek" >>,
      << "openai", "gemini", "groq" >>,
      << "openai", "openai" >>,
      << >> }

\* the providers whose API key is set
KeySets ==
    { KnownProviders, { }, { "openai", "groq" }, { "groq" } }

\* what a request comes to: fetch throws or is aborted, a status that is
\* not ok, or a body whose content has so many words
Threw == [ threw |-> TRUE ]
Refused(status) == [ threw |-> FALSE, ok |-> FALSE, status |-> status ]
Answered(words) == [ threw |-> FALSE, ok |-> TRUE, status |-> 200, words |-> words ]

Statuses == { 400, 402, 408, 429, 500, 599 }

PostResults ==
    { Threw } \cup { Refused(status) : status \in Statuses }
              \cup { Answered(words) : words \in { 0, MinWords - 1, MinWords } }

\* status === 429 || status === 408 || (status >= 500 && status <= 599)
IsTransient(status) ==
    status = 429 \/ status = 408 \/ (status >= 500 /\ status <= 599)

WordCount(content) == content.words

\* the variables the driver has no use for
unused == << file, system, final, lastReason, check, fallbackCalls, lastPrompt,
             validations, rejections, rejected, fileAtStart >>

InitProviders ==
    /\ now = StartTime
    /\ artifacts = { }
    /\ \E list \in ProviderLists, keys \in KeySets :
         block = [ PROVIDERS |-> list, keys |-> keys ]
    /\ pc = "idle"
    /\ data = Null
    /\ today = << >>
    /\ attempt = 0
    /\ candidate = Null
    /\ response = Null
    /\ runs = 0
    /\ draftCalls = 0
    /\ failure = ""
    /\ refLog = << >>
    /\ file = FileMissing
    /\ system = BuildSystemPrompt(NoBlock)
    /\ final = Null
    /\ lastReason = ""
    /\ check = Null
    /\ fallbackCalls = 0
    /\ lastPrompt = Null
    /\ validations = 0
    /\ rejections = 0
    /\ rejected = << >>
    /\ fileAtStart = FileMissing

\* main(), up to the loop
ProvidersMain ==
    /\ pc = "idle"
    /\ runs' = runs + 1
    /\ today' = IsoDate(now)
    /\ data' = [ index |-> 1, errors |-> << >> ]
    /\ pc' = "loop"
    /\ UNCHANGED << now, artifacts, block, attempt, candidate, response, draftCalls,
                    failure, refLog, unused >>

\* the provider the loop is at
Provider == block.PROVIDERS[data.index]

\* catch (e) { errors.push(...); continue; }
Caught(code, message) ==
    [ data EXCEPT !.index = @ + 1,
                  !.errors = Append(@, [ provider |-> Provider, code |-> code,
                                         message |-> message ]) ]

\* a name that is none of the three: a warning, and the next name
SkipUnknown ==
    /\ pc = "loop"
    /\ data.index <= Len(block.PROVIDERS)
    /\ Provider \notin KnownProviders
    /\ data' = [ data EXCEPT !.index = @ + 1 ]
    /\ UNCHANGED << now, artifacts, block, pc, today, attempt, candidate, response,
                    runs, draftCalls, failure, refLog, unused >>

\* tryDeepSeek, tryOpenAI, tryGroq up to the first request: without a key
\* the provider throws before any request
TryProvider ==
    /\ pc = "loop"
    /\ data.index <= Len(block.PROVIDERS)
    /\ Provider \in KnownProviders
    /\ IF Provider \in block.keys
       THEN /\ attempt' = 1
            /\ pc' = "post"
            /\ data' = data
       ELSE /\ attempt' = attempt
            /\ pc' = "loop"
            /\ data' = Caught("", "MISSING_KEY")
    /\ UNCHANGED << now, artifacts, block, today, candidate, response, runs,
                    draftCalls, failure, refLog, unused >>

\* a provider that asks again after any refusal but 402
PostJSONRetryingAnyStatus ==
    /\ pc = "post"
    /\ \E r \in PostResults :
         /\ response' = r
         /\ IF r.threw
            THEN /\ data' = Caught("", "fetch")
                 /\ pc' = "loop"
                 /\ UNCHANGED << attempt, candidate >>
            ELSE IF ~r.ok
            THEN IF r.status = 402
                 THEN /\ data' = Caught("INSUFFICIENT_BALANCE", "402")
                      /\ pc' = "loop"
                      /\ UNCHANGED << attempt, candidate >>
                 ELSE IF attempt < MAX_ATTEMPTS_PER_PROVIDER
                 THEN /\ attempt' = attempt + 1
                      /\ UNCHANGED << data, pc, candidate >>
                 ELSE /\ data' = Caught("", "error")
                      /\ pc' = "loop"
                      /\ UNCHANGED << attempt, candidate >>
            ELSE IF r.words = 0
            THEN /\ data' = Caught("", "empty content")
                 /\ pc' = "loop"
                 /\ UNCHANGED << attempt, candidate >>
            ELSE /\ candidate' = [ provider |-> Provider, content |-> [ words |-> r.words ] ]
                 /\ pc' = "write"
                 /\ UNCHANGED << attempt, data >>
    /\ draftCalls' = draftCalls + 1
    /\ refLog' = Append(refLog, [ kind |-> "request", index |-> data.index,
                                  provider |-> Provider, attempt |-> attempt ])
    /\ UNCHANGED << now, artifacts, block, today, runs, failure, unused >>

\* one request of the provider's loop and what the loop does with it
PostJSON ==
    /\ pc = "post"
    /\ \E r \in PostResults :
         /\ response' = r
         /\ IF r.threw
            THEN /\ data' = Caught("", "fetch")
                 /\ pc' = "loop"
                 /\ UNCHANGED << attempt, candidate >>
            ELSE IF ~r.ok
            THEN IF r.status = 402
                 THEN /\ data' = Caught("INSUFFICIENT_BALANCE", "402")
                      /\ pc' = "loop"
                      /\ UNCHANGED << attempt, candidate >>
                 ELSE IF IsTransient(r.status) /\ attempt < MAX_ATTEMPTS_PER_PROVIDER
                 THEN /\ attempt' = attempt + 1
                      /\ UNCHANGED << data, pc, candidate >>
                 ELSE /\ data' = Caught("", "error")
                      /\ pc' = "loop"
                      /\ UNCHANGED << attempt, candidate >>
            ELSE IF r.words = 0
            THEN /\ data' = Caught("", "empty content")
                 /\ pc' = "loop"
                 /\ UNCHANGED << attempt, candidate >>
            ELSE /\ candidate' = [ provider |-> Provider, content |-> [ words |-> r.words ] ]
                 /\ pc' = "write"
                 /\ UNCHANGED << attempt, data >>
    /\ draftCalls' = draftCalls + 1
    /\ refLog' = Append(refLog, [ kind |-> "request", index |-> data.index,
                                  provider |-> Provider, attempt |-> attempt ])
    /\ UNCHANGED << now, artifacts, block, today, runs, failure, unused >>

\* a driver that goes on to the next provider after it has written
WriteResultGoingOn ==
    /\ pc = "write"
    /\ IF WordCount(candidate.content) < MinWords
       THEN /\ data' = Caught("", "Too short")
            /\ pc' = "loop"
            /\ UNCHANGED << artifacts, refLog >>
       ELSE \/ /\ artifacts' = artifacts \cup { today }
               /\ refLog' = Append(refLog, [ kind |-> "written", index |-> data.index,
                                             provider |-> candidate.provider ])
               /\ data' = [ data EXCEPT !.index = @ + 1 ]
               /\ pc' = "loop"
            \/ /\ data' = Caught("", "writeFile")
               /\ pc' = "loop"
               /\ UNCHANGED << artifacts, refLog >>
    /\ UNCHANGED << now, block, today, attempt, candidate, response, runs,
                    draftCalls, failure, unused >>

\* writeResult: too short a content throws, a devotional is written or the
\* write throws; main returns once it is written
WriteResult ==
    /\ pc = "write"
    /\ IF WordCount(candidate.content) < MinWords
       THEN /\ data' = Caught("", "Too short")
            /\ pc' = "loop"
            /\ UNCHANGED << artifacts, refLog >>
       ELSE \/ /\ artifacts' = artifacts \cup { today }
               /\ refLog' = Append(refLog, [ kind |-> "written", index |-> data.index,
                                             provider |-> candidate.provider ])
               /\ data' = data
               /\ pc' = "done"
            \/ /\ data' = Caught("", "writeFile")
               /\ pc' = "loop"
               /\ UNCHANGED << artifacts, refLog >>
    /\ UNCHANGED << now, block, today, attempt, candidate, response, runs,
                    draftCalls, failure, unused >>

\* the loop is through: throw new Error("All providers failed..."), exit(1)
AllProvidersFailed ==
    /\ pc = "loop"
    /\ data.index > Len(block.PROVIDERS)
    /\ failure' = "All providers failed"
    /\ pc' = "failed"
    /\ UNCHANGED << now, artifacts, block, data, today, attempt, candidate, response,
                    runs, draftCalls, refLog, unused >>

NextProviders ==
    \/ ProvidersMain
    \/ SkipUnknown
    \/ TryProvider
    \/ PostJSON
    \/ WriteResult
    \/ AllProvidersFailed

SpecProviders == InitProviders /\ [][NextProviders]_vars

-----------------------------------------------------------------------------
(* The low-cost DeepSeek driver (part_001:1-177). block holds the          *)
(* environment of the process, data its exit code once it has ended,       *)
(* candidate the content received, refLog every request sent and what it   *)
(* came to.                                                                *)

MAX_ATTEMPTS == 3               \* DEVOTIONAL_MAX_ATTEMPTS || 3

\* Math.floor(Math.random() * 300): its least and greatest values
Jitters == { 0, 299 }

\* 2 ** n
RECURSIVE Pow2(_)
Pow2(n) == IF n = 0 THEN 1 ELSE 2 * Pow2(n - 1)

\* 800 * (2 ** (attempt - 1)) + jitter
DelayMs(n, jitter) == 800 * Pow2(n - 1) + jitter

\* the code callDeepSeek gives the error it throws for a status not ok
ErrorCode(status) ==
    IF status = 402 THEN "INSUFFICIENT_BALANCE"
    ELSE IF IsTransient(status) THEN "RETRYABLE"
    ELSE ""

\* the error the try block of the loop ends with, none when it breaks
Thrown(r) ==
    IF r.threw THEN [ code |-> "", message |-> "fetch" ]
    ELSE IF ~r.ok THEN [ code |-> ErrorCode(r.status), message |-> "status" ]
    ELSE IF r.words = 0 THEN [ code |-> "", message |-> "Empty response from DeepSeek" ]
    ELSE Null

InitLowCost ==
    /\ now = StartTime
    /\ artifacts = { }
    /\ \E key \in BOOLEAN : block = [ API_KEY |-> key ]
    /\ pc = "idle"
    /\ data = Null
    /\ today = << >>
    /\ attempt = 0
    /\ candidate = Null
    /\ response = Null
    /\ runs = 0
    /\ draftCalls = 0
    /\ failure = ""
    /\ refLog = << >>
    /\ file = FileMissing
    /\ system = BuildSystemPrompt(NoBlock)
    /\ final = Null
    /\ lastReason = ""
    /\ check = Null
    /\ fallbackCalls = 0
    /\ lastPrompt = Null
    /\ validations = 0
    /\ rejections = 0
    /\ rejected = << >>
    /\ fileAtStart = FileMissing

\* main() up to the loop; without a key it throws and main().catch exits
\* with status 1
LowCostMain ==
    /\ pc = "idle"
    /\ runs' = runs + 1
    /\ IF block.API_KEY
       THEN /\ today' = IsoDate(now)
            /\ attempt' = 1
            /\ pc' = "request"
            /\ UNCHANGED << data, failure >>
       ELSE /\ failure' = "Missing DEEPSEEK_API_KEY environment variable."
            /\ data' = [ exitCode |-> 1 ]
            /\ pc' = "failed"
            /\ UNCHANGED << today, attempt >>
    /\ UNCHANGED << now, artifacts, block, candidate, response, draftCalls,
                    refLog, unused >>

\* a loop that exits with status 0 on any error thrown on the last attempt
\* and asks again after 402
CallDeepSeekRetrying402 ==
    /\ pc = "request"
    /\ \E r \in PostResults :
         /\ response' = r
         /\ LET err == Thrown(r)
            IN  IF err = Null
                THEN /\ candidate' = [ words |-> r.words ]
                     /\ pc' = "words"
                     /\ UNCHANGED << now, attempt, data, failure >>
                ELSE IF attempt >= MAX_ATTEMPTS
                THEN /\ data' = [ exitCode |-> 0 ]
                     /\ pc' = "exited"
                     /\ UNCHANGED << now, attempt, candidate, failure >>
                ELSE /\ \E jitter \in Jitters :
                          now' = [ now EXCEPT !.ms = @ + DelayMs(attempt, jitter) ]
                     /\ attempt' = attempt + 1
                     /\ UNCHANGED << pc, data, candidate, failure >>
    /\ draftCalls' = draftCalls + 1
    /\ refLog' = Append(refLog, [ kind |-> "request", attempt |-> attempt,
                                  result |-> response' ])
    /\ UNCHANGED << artifacts, block, today, runs, unused >>

\* one turn of the loop of main: callDeepSeek(messages), and the catch
CallDeepSeek ==
    /\ pc = "request"
    /\ \E r \in PostResults :
         /\ response' = r
         /\ LET err == Thrown(r)
            IN  IF err = Null
                THEN /\ candidate' = [ words |-> r.words ]
                     /\ pc' = "words"
                     /\ UNCHANGED << now, attempt, data, failure >>
                ELSE IF err.code = "INSUFFICIENT_BALANCE"
                THEN /\ data' = [ exitCode |-> 0 ]
                     /\ pc' = "exited"
                     /\ UNCHANGED << now, attempt, candidate, failure >>
                ELSE IF attempt >= MAX_ATTEMPTS
                THEN /\ failure' = err.message
                     /\ data' = [ exitCode |-> 1 ]
                     /\ pc' = "failed"
                     /\ UNCHANGED << now, attempt, candidate >>
                ELSE /\ \E jitter \in Jitters :
                          now' = [ now EXCEPT !.ms = @ + DelayMs(attempt, jitter) ]
                     /\ attempt' = attempt + 1
                     /\ UNCHANGED << pc, data, candidate, failure >>
    /\ draftCalls' = draftCalls + 1
    /\ refLog' = Append(refLog, [ kind |-> "request", attempt |-> attempt,
                                  result |-> response' ])
    /\ UNCHANGED << artifacts, block, today, runs, unused >>

\* lines 143-171: too short a content throws; the devotional is written, or
\* the write throws
LowCostWrite ==
    /\ pc = "words"
    /\ IF WordCount(candidate) < MinWords
       THEN /\ failure' = "Unexpectedly short content"
            /\ data' = [ exitCode |-> 1 ]
            /\ pc' = "failed"
            /\ UNCHANGED artifacts
       ELSE \/ /\ artifacts' = artifacts \cup { today }
               /\ data' = [ exitCode |-> 0 ]
               /\ pc' = "done"
               /\ UNCHANGED failure
            \/ /\ failure' = "writeFile"
               /\ data' = [ exitCode |-> 1 ]
               /\ pc' = "failed"
               /\ UNCHANGED artifacts
    /\ UNCHANGED << now, block, today, attempt, candidate, response, runs,
                    draftCalls, refLog, unused >>

NextLowCost == LowCostMain \/ CallDeepSeek \/ LowCostWrite

SpecLowCost == InitLowCost /\ [][NextLowCost]_vars

-----------------------------------------------------------------------------
(* The tracker file over the life of several processes: it is loaded by    *)
(* the constructor of either ContentTracker class, written by save() at    *)
(* the end of record(), and written by saveTracker() at the end of         *)
(* cleanupOldData() (src/content-tracker.js, lines 125-378).               *)

MaxOpens  == 2                  \* processes that open the tracker file
MaxStored == 3                  \* title entries a history grows to
MaxTicks  == 2                  \* times the clock is moved forward

DaysToKeep == 365               \* cleanupOldData(daysToKeep = 365)

\* the record loadTracker() starts from: it has neither contentHashes nor
\* recentScriptures
EmptyTracker(t) ==
    [ titles              |-> << >>,
      keyPhrases          |-> << >>,
      scriptureReferences |-> << >>,
      themes              |-> << >>,
      lastUpdated         |-> t,
      totalDevotionals    |-> 0 ]

LoadTracker(f, t) ==
    IF f.exists /\ f.parses THEN f.json ELSE EmptyTracker(t)

\* a pruning that keeps the entries dated at the cutoff itself
CleanupOldDataInclusive(d, t, daysToKeep) ==
    LET cutoffDate == MinusDays(t, daysToKeep)
        IsRecent(e) == TimeGeq(DateTime(e.dateUsed), cutoffDate)
    IN  [ d EXCEPT
            !.titles              = SelectSeq(@, IsRecent),
            !.keyPhrases          = SelectSeq(@, IsRecent),
            !.scriptureReferences = SelectSeq(@, IsRecent),
            !.themes              = SelectSeq(@, IsRecent) ]

\* cleanupOldData(daysToKeep) up to, not including, its final saveTracker():
\* an entry stays when new Date(dateUsed) > cutoffDate
CleanupOldData(d, t, daysToKeep) ==
    LET cutoffDate == MinusDays(t, daysToKeep)
        IsRecent(e) == ~TimeGeq(cutoffDate, DateTime(e.dateUsed))
    IN  [ d EXCEPT
            !.titles              = SelectSeq(@, IsRecent),
            !.keyPhrases          = SelectSeq(@, IsRecent),
            !.scriptureReferences = SelectSeq(@, IsRecent),
            !.themes              = SelectSeq(@, IsRecent) ]

\* the devotional of the day t, as the script records it
Daily(t) ==
    MakeCandidate(Draft(T_StandFirm \o << " " >> \o IsoDate(t), R_John, B_Hold,
                        Th_Faith), IsoDate(t))

\* the history left by the scripts that ran ages[1], ages[2], ... days
\* before t
RECURSIVE Aged(_, _)
Aged(ages, t) ==
    IF ages = << >> THEN EmptyData(t)
    ELSE LET then == MinusDays(t, ages[Len(ages)])
         IN  Save(Record(Aged(SubSeq(ages, 1, Len(ages) - 1), t), Daily(then),
                         then), then)

\* a year and a day, a year, a day less than a year, and yesterday
StoredDays ==
    { << >>, << 1 >>, << DaysToKeep >>, << DaysToKeep + 1, 1 >>,
      << DaysToKeep + 1, DaysToKeep, DaysToKeep - 1 >> }

StoredFiles ==
    { FileMissing, FileCorrupt } \cup { FileOf(Aged(a, StartTime)) : a \in StoredDays }

\* what record() is given: the devotional of the day, or one without date,
\* reference and theme
RecordedNow(t) ==
    { Daily(t), [ Daily(t) EXCEPT !.date = << >>, !.scriptureReference = << >>,
                                  !.theme = << >> ] }

InitStore ==
    /\ now = StartTime
    /\ file \in StoredFiles
    /\ data = Null
    /\ artifacts = { }
    /\ pc = "closed"
    /\ candidate = Null
    /\ check = Null
    /\ refLog = << >>
    /\ AtRest

\* new ContentTracker() of lines 6-10
OpenTracker ==
    /\ pc = "closed"
    /\ runs < MaxOpens
    /\ runs' = runs + 1
    /\ data' = Load(file, now)
    /\ fileAtStart' = file
    /\ pc' = "loaded"
    /\ UNCHANGED << now, file, artifacts, ctl, calls, tally, failure, refLog >>

\* new ContentTracker() of lines 126-129
OpenSimpleTracker ==
    /\ pc = "closed"
    /\ runs < MaxOpens
    /\ runs' = runs + 1
    /\ data' = LoadTracker(file, now)
    /\ fileAtStart' = file
    /\ pc' = "loadedSimple"
    /\ UNCHANGED << now, file, artifacts, ctl, calls, tally, failure, refLog >>

\* record(devotional) with its save()
StoreRecord ==
    /\ pc \in { "loaded", "recorded" }
    /\ Len(data.titles) < MaxStored
    /\ \E devotional \in RecordedNow(now) :
         data' = Save(Record(data, devotional, now), now)
    /\ file' = FileOf(data')
    /\ pc' = "recorded"
    /\ UNCHANGED << now, runs, fileAtStart, artifacts, ctl, calls, tally, failure,
                    refLog >>

\* cleanupOldData() with its saveTracker()
StoreCleanup ==
    /\ pc \in { "loadedSimple", "cleaned" }
    /\ data' = Save(CleanupOldData(data, now, DaysToKeep), now)
    /\ file' = FileOf(data')
    /\ pc' = "cleaned"
    /\ UNCHANGED << now, runs, fileAtStart, artifacts, ctl, calls, tally, failure,
                    refLog >>

\* time passes: a millisecond, or a day
Tick ==
    /\ now.day + now.ms < StartTime.day + MaxTicks
    /\ \/ now' = [ now EXCEPT !.ms = @ + 1 ]
       \/ now' = [ now EXCEPT !.day = @ + 1 ]
    /\ UNCHANGED << file, data, pc, runs, fileAtStart, artifacts, ctl, calls, tally,
                    failure, refLog >>

\* the process ends: the file is all that is left
Exit ==
    /\ pc \in { "loaded", "loadedSimple", "recorded", "cleaned" }
    /\ pc' = "closed"
    /\ data' = Null
    /\ UNCHANGED << now, file, runs, fileAtStart, artifacts, ctl, calls, tally,
                    failure, refLog >>

NextStore ==
    OpenTracker \/ OpenSimpleTracker \/ StoreRecord \/ StoreCleanup \/ Tick \/ Exit

SpecStore == InitStore /\ [][NextStore]_vars

-----------------------------------------------------------------------------
(* The simple ContentTracker (src/content-tracker.js, lines 125-378):       *)
(* recordDevotional() with its key phrases, and cleanupOldData() with any  *)
(* retention.                                                              *)

General == << "g","e","n","e","r","a","l" >>

\* the separators of content.split(/[.!?]+/) and of words.split(/\s+/)
IsSeparator(kind, c) ==
    IF kind = "sentence" THEN c \in { ".", "!", "?" } ELSE IsSpaceChar(c)

\* s.split(/[.!?]+/) and s.split(/\s+/): the pieces between the runs of
\* separators, with an empty piece at an end that is a separator
SplitRuns(s, kind) == SplitBy(s, LAMBDA c : IsSeparator(kind, c))

CommonWords ==
    { << "t","h","e" >>,
      << "a","n","d" >>,
      << "o","r" >>,
      << "b","u","t" >>,
      << "i","n" >>,
      << "o","n" >>,
      << "a","t" >>,
      << "t","o" >>,
      << "f","o","r" >>,
      << "o","f" >>,
      << "w","i","t","h" >>,
      << "b","y" >> }

\* isSignificantPhrase(phrase): two words or more that are not common and
\* are longer than 3 characters
IsSignificantPhrase(phrase) ==
    LET words == SplitRuns(ToLowerCase(phrase), "space")
        significantWords ==
            SelectSeq(words, LAMBDA word : word \notin CommonWords /\ Len(word) > 3)
    IN  Len(significantWords) >= 2

\* the phrases of one sentence, in the order of the two loops: start i, then
\* length 4 to 6
PhrasesOf(sentence) ==
    LET words == SplitRuns(Trim(sentence), "space")
        n     == Len(words)
        slots == [ k \in 1..(3 * n) |->
                     [ i |-> (k - 1) \div 3, len |-> 4 + ((k - 1) % 3) ] ]
        InLoop(sl) ==
            /\ sl.i <= n - 4
            /\ sl.len <= (IF 6 < n - sl.i THEN 6 ELSE n - sl.i)
        Phrase(sl) == Trim(Join(SubSeq(words, sl.i + 1, sl.i + sl.len), << " " >>))
        Pushed(sl) ==
            /\ InLoop(sl)
            /\ Len(Phrase(sl)) > 15
            /\ IsSignificantPhrase(Phrase(sl))
        chosen == SelectSeq(slots, Pushed)
    IN  [ k \in 1..Len(chosen) |-> Phrase(chosen[k]) ]

\* [...new Set(phrases)]: the first occurrence of each
RECURSIVE Unique(_)
Unique(phrases) ==
    IF phrases = << >> THEN << >>
    ELSE LET front == Unique(SubSeq(phrases, 1, Len(phrases) - 1))
             last  == phrases[Len(phrases)]
         IN  IF last \in Range(front) THEN front ELSE Append(front, last)

RECURSIVE PhrasesOfAll(_)
PhrasesOfAll(sentences) ==
    IF sentences = << >> THEN << >>
    ELSE PhrasesOf(Head(sentences)) \o PhrasesOfAll(Tail(sentences))

ExtractKeyPhrases(content) ==
    Unique(PhrasesOfAll(SplitRuns(content, "sentence")))

\* recordDevotional(devotional) up to, not including, its final saveTracker()
RecordDevotional(d, devotional, t) ==
    LET dateString == IF devotional.date # << >> THEN devotional.date ELSE IsoDate(t)
        theme      == IF devotional.theme # << >> THEN devotional.theme ELSE General
        phrases    == ExtractKeyPhrases(devotional.content)
    IN  [ d EXCEPT
            !.titles = Append(@, [ title |-> devotional.title,
                                   dateUsed |-> dateString, theme |-> theme ]),
            !.keyPhrases =
                @ \o [ k \in 1..Len(phrases) |->
                         [ phrase |-> phrases[k], dateUsed |-> dateString ] ],
            !.scriptureReferences =
                IF devotional.scriptureReference # << >>
                THEN Append(@, [ reference |-> devotional.scriptureReference,
                                 dateUsed |-> dateString, theme |-> theme ])
                ELSE @,
            !.themes =
                IF devotional.theme # << >>
                THEN Append(@, [ category |-> devotional.theme,
                                 dateUsed |-> dateString,
                                 title |-> devotional.title ])
                ELSE @ ]

B_StandInFaith == << "S","t","a","n","d"," ","f","i","r","m"," ","i","n"," ","f","a","i","t","h"," ","t","o","d","a","y","."," ","H","o","l","d"," ","f","a","s","t","!" >>

\* the devotional of the day t with a body that has key phrases
DailyPhrased(t) == [ Daily(t) EXCEPT !.content = B_StandInFaith ]

\* the history left by the simple tracker on the days ages[1], ages[2], ...
\* before t
RECURSIVE AgedSimple(_, _)
AgedSimple(ages, t) ==
    IF ages = << >> THEN EmptyTracker(t)
    ELSE LET then == MinusDays(t, ages[Len(ages)])
         IN  Save(RecordDevotional(AgedSimple(SubSeq(ages, 1, Len(ages) - 1), t),
                                   DailyPhrased(then), then), then)

PrunedFiles ==
    { FileMissing, FileOf(Aged(<< DaysToKeep + 1, 1 >>, StartTime)) }
        \cup { FileOf(AgedSimple(a, StartTime)) : a \in StoredDays }

\* cleanupOldData(daysToKeep): a year, or a day
Retentions == { DaysToKeep, 1 }

\* when the tracker is opened: at the midnight the stored histories are
\* counted from, a millisecond later, or a day later
PruneTimes ==
    { StartTime, [ StartTime EXCEPT !.ms = 1 ], [ StartTime EXCEPT !.day = @ + 1 ] }

InitPrune ==
    /\ now \in PruneTimes
    /\ file \in PrunedFiles
    /\ data = Null
    /\ artifacts = { }
    /\ pc = "closed"
    /\ candidate = Null
    /\ check = Null
    /\ refLog = << >>
    /\ AtRest

\* recordDevotional(devotional) with its saveTracker()
PruneRecord ==
    /\ pc \in { "loadedSimple", "recordedSimple", "cleaned" }
    /\ Len(data.titles) < MaxStored
    /\ \E devotional \in { DailyPhrased(now),
                           [ DailyPhrased(now) EXCEPT !.date = << >>,
                                                      !.scriptureReference = << >>,
                                                      !.theme = << >> ] } :
         data' = Save(RecordDevotional(data, devotional, now), now)
    /\ file' = FileOf(data')
    /\ pc' = "recordedSimple"
    /\ UNCHANGED << now, runs, fileAtStart, artifacts, ctl, calls, tally, failure,
                    refLog >>

\* cleanupOldData(daysToKeep) with its saveTracker()
PruneCleanup ==
    /\ pc \in { "loadedSimple", "recordedSimple", "cleaned" }
    /\ \E daysToKeep \in Retentions :
         /\ data' = Save(CleanupOldData(data, now, daysToKeep), now)
         /\ check' = [ daysToKeep |-> daysToKeep ]
    /\ file' = FileOf(data')
    /\ pc' = "cleaned"
    /\ UNCHANGED << now, runs, fileAtStart, artifacts, today, block, system, attempt,
                    final, lastReason, candidate, calls, tally, failure, refLog >>

NextPrune == OpenSimpleTracker \/ PruneRecord \/ PruneCleanup

SpecPrune == InitPrune /\ [][NextPrune]_vars

-----------------------------------------------------------------------------
(* One tracker, starting from an empty history, asked to validate          *)
(* candidates any number of times and to record the accepted ones          *)
(* (src/content-tracker.js, lines 81-106).                                 *)

MaxSession == 3                 \* devotionals recorded by one tracker
MaxWaits   == 2                 \* times the tracker is left alone for a while

T_WalkingInFaith  == << "W","a","l","k","i","n","g"," ","i","n"," ","F","a","i","t","h" >>
T_FaithAndWalking == << "F","a","i","t","h"," ","a","n","d"," ","W","a","l","k","i","n","g" >>
R_Romans          == << "R","o","m","a","n","s"," ","8",":","2","8" >>

WalkingInFaith  == MakeCandidate(Draft(T_WalkingInFaith, R_John, B_Hold, Th_Faith), << >>)
FaithAndWalking == MakeCandidate(Draft(T_FaithAndWalking, R_Romans, B_Rise, Th_Faith), << >>)

\* the two above, a new title over the reference of the first, and a new
\* title and reference over the body of the first
SessionCandidates ==
    { WalkingInFaith, FaithAndWalking,
      MakeCandidate(Draft(T_IronSharpens, R_JohnLoose, B_Keep, << >>), << >>),
      MakeCandidate(Draft(T_QuietStrength, R_Psalm, B_Hold, << >>), << >>) }

InitSession ==
    /\ now = StartTime
    /\ data = EmptyData(StartTime)
    /\ file = FileMissing
    /\ artifacts = { }
    /\ pc = "ready"
    /\ candidate = Null
    /\ check = Null
    /\ refLog = << >>
    /\ AtRest

\* a validate that remembers what it was asked about
SessionValidateRecording ==
    /\ pc \in { "ready", "validated", "recorded" }
    /\ \E c \in SessionCandidates : candidate' = c
    /\ check' = Validate(data, candidate', now)
    /\ data' = Record(data, candidate', now)
    /\ pc' = "validated"
    /\ UNCHANGED << now, file, artifacts, today, block, system, attempt, final,
                    lastReason, runs, calls, tally, fileAtStart, failure,
                    refLog >>

\* tracker.validate(candidate)
SessionValidate ==
    /\ pc \in { "ready", "validated", "recorded" }
    /\ \E c \in SessionCandidates : candidate' = c
    /\ check' = Validate(data, candidate', now)
    /\ pc' = "validated"
    /\ UNCHANGED << now, file, data, artifacts, today, block, system, attempt, final,
                    lastReason, runs, calls, tally, fileAtStart, failure,
                    refLog >>

\* tracker.record(candidate) of the candidate validate has just accepted
SessionRecord ==
    /\ pc = "validated"
    /\ check.ok
    /\ Len(data.titles) < MaxSession
    /\ data' = Save(Record(data, candidate, now), now)
    /\ file' = FileOf(data')
    /\ pc' = "recorded"
    /\ UNCHANGED << now, artifacts, ctl, runs, calls, tally, fileAtStart,
                    failure, refLog >>

\* a day passes, or the cooldown of what was recorded runs out
SessionWait ==
    /\ pc \in { "validated", "recorded" }
    /\ runs < MaxWaits
    /\ runs' = runs + 1
    /\ \E g \in { 1, LookbackDays + 1 } : now' = [ now EXCEPT !.day = @ + g ]
    /\ pc' = "ready"
    /\ candidate' = Null
    /\ check' = Null
    /\ UNCHANGED << file, data, artifacts, today, block, system, attempt, final,
                    lastReason, calls, tally, fileAtStart, failure, refLog >>

NextSession == SessionValidate \/ SessionRecord \/ SessionWait

SpecSession == InitSession /\ [][NextSession]_vars

-----------------------------------------------------------------------------
(* sim (src/content-tracker.js, lines 43-49) and calculateSimilarity        *)
(* (lines 295-303) applied to pairs of short texts, in both orders          *)

MaxWords == 2                   \* words of a text that is measured

\* calculateSimilarity(text1, text2): no normalize, and 0 when there is no
\* word at all
CalculateSimilarity(text1, text2) ==
    LET words1 == { w \in Range(SplitNonWord(ToLowerCase(text1))) : Len(w) > 3 }
        words2 == { w \in Range(SplitNonWord(ToLowerCase(text2))) : Len(w) > 3 }
        intersection == { word \in words1 : word \in words2 }
        union == words1 \cup words2
    IN  IF Cardinality(union) > 0
        THEN [ inter |-> Cardinality(intersection), uni |-> Cardinality(union) ]
        ELSE [ inter |-> 0, uni |-> 1 ]

\* a word of three letters, two of more, and one with a capital and a comma
SimTokens ==
    { << "n","o","w" >>, << "s","t","a","n","d" >>, << "f","i","r","m" >>, << "F","i","r","m","," >> }

SimTexts == { Join(q, << " " >>) : q \in SeqsUpTo(SimTokens, MaxWords) }

InitSim ==
    /\ now = StartTime
    /\ data = EmptyData(StartTime)
    /\ file = FileMissing
    /\ artifacts = { }
    /\ pc = "ready"
    /\ candidate \in [ a : SimTexts, b : SimTexts ]
    /\ check = Null
    /\ refLog = << >>
    /\ AtRest

\* tracker.sim(a, b) and tracker.sim(b, a)
ApplySimBothWays ==
    /\ pc = "ready"
    /\ check' = [ ab |-> Sim(candidate.a, candidate.b),
                  ba |-> Sim(candidate.b, candidate.a) ]
    /\ pc' = "sim"
    /\ UNCHANGED << candidate, frame >>

\* tracker.calculateSimilarity(a, b) and tracker.calculateSimilarity(b, a)
ApplyCalculateSimilarity ==
    /\ pc = "ready"
    /\ check' = [ ab |-> CalculateSimilarity(candidate.a, candidate.b),
                  ba |-> CalculateSimilarity(candidate.b, candidate.a) ]
    /\ pc' = "calculateSimilarity"
    /\ UNCHANGED << candidate, frame >>

NextSim == ApplySimBothWays \/ ApplyCalculateSimilarity

SpecSim == InitSim /\ [][NextSim]_vars

-----------------------------------------------------------------------------
(* Properties of the controller *)

LastOf(seq) == seq[Len(seq)]


\* the history this run loaded
Loaded == Load(fileAtStart, now)

\* C1: a run calls the generator at most MAX_TRIES times inside the loop;
\* the fallback call is made at most once, and only when the loop made all
\* MAX_TRIES calls and tracker.validate refused every one of their
\* candidates; so a run makes at most MAX_TRIES + 1 calls.
C1_CallsBounded ==
    /\ draftCalls <= MAX_TRIES
    /\ fallbackCalls <= 1
    /\ draftCalls + fallbackCalls <= MAX_TRIES + 1
    /\ (pc = "fallback" \/ fallbackCalls = 1) =>
          /\ draftCalls = MAX_TRIES
          /\ rejections = MAX_TRIES

C1_Witness ==
    /\ pc = "done"
    /\ draftCalls = MAX_TRIES
    /\ fallbackCalls = 1
    /\ rejections = MAX_TRIES

\* C2: when a run has recorded, the entry appended to the history is that
\* of final, and final is either the candidate of the run's last validate
\* call, which accepted it (and which the validator accepts against the
\* loaded history), or the candidate built from the answer to the fallback
\* call, made after MAX_TRIES rejections.
C2_RecordedAcceptedOrFallback ==
    pc = "done" =>
        /\ Len(file.json.titles) = Len(Loaded.titles) + 1
        /\ LastOf(file.json.titles).title = final.title
        /\ LastOf(file.json.contentHashes).hash = Hash(final.content)
        /\ \/ /\ fallbackCalls = 0
              /\ final = candidate
              /\ check.ok
              /\ rejections = validations - 1
              /\ Validate(Loaded, final, now).ok
           \/ /\ fallbackCalls = 1
              /\ rejections = MAX_TRIES
              /\ validations = MAX_TRIES
              /\ ~check.ok
              /\ final.title = Cleanup(response.title) \o << " ", EmDash, " " >> \o today
              /\ final.content = Cleanup(response.content)

C2_Witness ==
    /\ pc = "done"
    /\ fallbackCalls = 0
    /\ rejections >= 1
    /\ check.ok

\* C3: once all MAX_TRIES candidates of a run were refused, the run is
\* waiting for the fallback's answer, writing, or stopped; it stops failed
\* only because the fallback call or a write failed, never because the
\* tries ran out, and otherwise it stops accepted.  It is then that the
\* fallback call was made, that validate was called MAX_TRIES times and no
\* more (the fallback candidate never went through it), and the history is
\* the loaded one with exactly one title entry and one content-hash entry,
\* those of the fallback candidate, appended.
C3_FallbackAccepts ==
    rejections = MAX_TRIES =>
        /\ pc \in { "fallback", "write", "done", "failed" }
        /\ pc = "failed" <=> failure \in { "generator", "artifact", "history" }
        /\ pc # "failed" => failure = ""
        /\ pc \in { "write", "done" } =>
              /\ fallbackCalls = 1
              /\ validations = MAX_TRIES
              /\ ~check.ok
              /\ final = FallbackCandidate(response, today)
        /\ pc = "done" =>
              /\ file.json.titles =
                   Append(Loaded.titles,
                          [ title |-> final.title, dateUsed |-> today,
                            theme |-> final.theme ])
              /\ file.json.contentHashes =
                   Append(Loaded.contentHashes,
                          [ hash |-> Hash(final.content), dateUsed |-> today ])

C3_Witness ==
    /\ pc = "done"
    /\ rejections = MAX_TRIES
    /\ fallbackCalls = 1
    /\ Len(file.json.titles) = Len(Loaded.titles) + 1

\* the steps a run may still take: two for every try left, then the
\* fallback call and the write
RunMeasure ==
    IF pc = "draft" THEN 2 * (MAX_TRIES - attempt) + 2
    ELSE IF pc = "validate" THEN 2 * (MAX_TRIES - attempt) + 3
    ELSE IF pc = "fallback" THEN 2
    ELSE IF pc = "write" THEN 1
    ELSE 0

\* C23: every step of a run brings it nearer to its end, so a run whose
\* calls return or fail stops; it stops skipped, with today's devotional
\* already there and nothing called or written; or done, with one devotional
\* written and one entry added to the tracker file; or failed, with the
\* tracker file as it was.  The devotional and the tracker file are written
\* by the last step of a run only, so at most once.
C23_RunsTerminate ==
    [][ /\ ~Stopped => (RunMeasure' < RunMeasure /\ RunMeasure' >= 0)
        /\ artifacts' # artifacts =>
              /\ pc = "write" /\ pc' \in { "done", "failed" }
              /\ today \notin artifacts
              /\ artifacts' = artifacts \cup { today }
        /\ file' # file =>
              /\ pc = "write" /\ pc' = "done"
              /\ Len(file'.json.titles) = Len(data.titles) + 1
        /\ pc' = "skipped" =>
              /\ today' \in artifacts
              /\ artifacts' = artifacts /\ file' = file
              /\ draftCalls' = 0 /\ fallbackCalls' = 0
        /\ pc' = "done" =>
              /\ today' \in artifacts'
              /\ file'.json.titles # data.titles
              /\ failure' = ""
        /\ pc' = "failed" => file' = file ]_vars

C23_Witness ==
    /\ pc = "skipped"
    /\ runs = 2
    /\ file.exists
    /\ file = fileAtStart
    /\ ArtifactExists(artifacts, today)
    /\ draftCalls = 0

\* C24: a run whose write of the devotional failed is stopped failed
\* without record() having been called: the history in memory and the
\* tracker file are those the run loaded, and the devotional is not there;
\* and a run that has changed the tracker file has today's devotional on
\* disk.
C24_RecordAfterWrite ==
    /\ failure = "artifact" =>
          /\ pc = "failed"
          /\ data = Loaded
          /\ file = fileAtStart
          /\ ~ArtifactExists(artifacts, today)
    /\ (pc # "idle" /\ file # fileAtStart) =>
          /\ pc = "done"
          /\ ArtifactExists(artifacts, today)

C24_Witness ==
    /\ pc = "failed"
    /\ failure = "artifact"
    /\ final # Null
    /\ fileAtStart.exists
    /\ file = fileAtStart
    /\ ~ArtifactExists(artifacts, today)

\* the dates of the title entries of the tracker file
RecordedDates ==
    IF file.exists /\ file.parses
    THEN { file.json.titles[i].dateUsed : i \in DOMAIN file.json.titles }
    ELSE { }

\* C25: every date that has a devotional on disk has a title entry with that
\* date in the tracker file.
C25_ArtifactsRecorded ==
    \A day \in artifacts : day \in RecordedDates

\* C26: a run that finds today's devotional calls the generator for
\* nothing and leaves the devotionals and the tracker file as they are; and
\* the tracker file never holds two title entries of one date.
C26_SkippedRunChangesNothing ==
    [][ /\ pc' = "skipped" =>
              /\ today' \in artifacts
              /\ artifacts' = artifacts
              /\ file' = file
              /\ draftCalls' = 0 /\ fallbackCalls' = 0
              /\ lastPrompt' = Null
        /\ file'.exists =>
              \A i, j \in DOMAIN file'.json.titles :
                 i # j => file'.json.titles[i].dateUsed # file'.json.titles[j].dateUsed
      ]_vars

C26_Witness ==
    /\ pc = "skipped"
    /\ lastPrompt = Null
    /\ today \in RecordedDates
    /\ Len(file.json.titles) = 1

\* C27: the prompt of the fallback call lists no title and no reference to
\* avoid, and has no additional-constraint sentence.
C27_FallbackUnconstrained ==
    fallbackCalls = 1 =>
        /\ lastPrompt.titles = << >>
        /\ lastPrompt.scriptures = << >>
        /\ lastPrompt.extra = ""

-----------------------------------------------------------------------------
(* Properties of the validator and of record() *)

\* the stored titles equal, once normalized, to the candidate's
EqualTitles ==
    { i \in DOMAIN data.titles :
        Normalize(data.titles[i].title) = Normalize(candidate.title) }

\* the two integers of the Jaccard overlap of the words of two titles
Shared(a, b)  == Cardinality(Words(a) \cap Words(b))
Pooled(a, b)  ==
    IF Words(a) \cup Words(b) = { } THEN 1 ELSE Cardinality(Words(a) \cup Words(b))

\* the stored titles whose overlap with the candidate's is above 70%
OverlappingTitles ==
    { i \in DOMAIN data.titles :
        10 * Shared(candidate.title, data.titles[i].title)
            > 7 * Pooled(candidate.title, data.titles[i].title) }

\* the stored titles whose overlap with the candidate's is 70% or more
TitlesAtOrAbove ==
    { i \in DOMAIN data.titles :
        10 * Shared(candidate.title, data.titles[i].title)
            >= 7 * Pooled(candidate.title, data.titles[i].title) }

TitlePasses == EqualTitles = { } /\ OverlappingTitles = { }

\* the candidate's body, normalized, is that of a stored hash
BodyStored ==
    \E i \in DOMAIN data.contentHashes :
        data.contentHashes[i].hash.sha1 = Normalize(candidate.content)

\* the stored uses of the candidate's reference, and their age in ms
MatchingUses ==
    { i \in DOMAIN data.recentScriptures :
        Normalize(data.recentScriptures[i].reference)
            = Normalize(candidate.scriptureReference) }

AgeMs(i) ==
    (now.day - DateTime(data.recentScriptures[i].dateUsed).day) * 86400000 + now.ms

UsedDaysAgo(i, n) == data.recentScriptures[i].dateUsed = IsoDate(MinusDays(now, n))

\* C4: a candidate whose normalized title equals the normalized title of a
\* stored entry is refused by validate with the reason 'Exact title match'.
C4_EqualTitleExactMatch ==
    (pc = "validated" /\ EqualTitles # { }) =>
        /\ ~check.ok
        /\ check.reason = ExactTitleMatch

\* C5: a candidate whose normalized body is that of a stored hash is
\* refused by validate whatever its title and reference; the reason is
\* 'Content body duplicated' when its title passes the title check, and the
\* reason of the title check when it does not.
C5_StoredBodyRefused ==
    (pc = "validated" /\ BodyStored) =>
        /\ ~check.ok
        /\ TitlePasses => check.reason = ContentDuplicated
        /\ ~TitlePasses => check.reason \in { ExactTitleMatch, TitleTooSimilar }

C5_Witness ==
    /\ pc = "validated"
    /\ BodyStored
    /\ TitlePasses
    /\ \E i \in MatchingUses : AgeMs(i) <= 21 * 86400000
    /\ check.reason = ContentDuplicated

\* C5 as stated: a candidate whose normalized body is that of a stored
\* hash is refused with the reason 'Content body duplicated', whatever its
\* title and reference.
C5_StoredBodyAlwaysContentReason ==
    (pc = "validated" /\ BodyStored) =>
        /\ ~check.ok
        /\ check.reason = ContentDuplicated

\* C6: a candidate with a reference that passes the title and content
\* checks is refused with 'Scripture used in last 21 days' exactly when a
\* stored use of its normalized reference is at most 21 * 86400000 ms old;
\* so a use of 20 days ago refuses it, uses of 22 days ago alone do not,
\* and a use exactly 21 * 86400000 ms old still refuses it.
C6_CooldownBoundary ==
    (/\ pc = "validated"
     /\ TitlePasses
     /\ ~BodyStored
     /\ candidate.scriptureReference # << >>) =>
        /\ (\E i \in MatchingUses : AgeMs(i) <= 21 * 86400000)
              <=> (~check.ok /\ check.reason = ScriptureUsed)
        /\ (\A i \in MatchingUses : AgeMs(i) > 21 * 86400000) <=> check.ok
        /\ (\E i \in MatchingUses : UsedDaysAgo(i, 20)) => ~check.ok
        /\ (\A i \in MatchingUses : UsedDaysAgo(i, 22)) => check.ok
        /\ (now.ms = 0 /\ \E i \in MatchingUses : UsedDaysAgo(i, 21)) => ~check.ok
        /\ (now.ms > 0 /\ \A i \in MatchingUses : UsedDaysAgo(i, 21)) => check.ok

C6_Witness ==
    /\ pc = "validated"
    /\ TitlePasses
    /\ ~BodyStored
    /\ MatchingUses # { }
    /\ \A i \in MatchingUses : AgeMs(i) = 21 * 86400000
    /\ ~check.ok
    /\ check.reason = ScriptureUsed

\* the references held by recentScriptures, in order
RecentReferences ==
    [ i \in 1..Len(data.recentScriptures) |-> data.recentScriptures[i].reference ]

\* C7: after any number of record() calls recentScriptures has at most 180
\* entries and holds the last min(n, 180) of the n references recorded, in
\* the order of recording; after 200 references, all different, it holds
\* the 21st to the 200th.
C7_RecentReferencesCapped ==
    pc = "recording" =>
        /\ Len(data.recentScriptures) <= 180
        /\ RecentReferences =
              IF Len(refLog) <= 180 THEN refLog
              ELSE SubSeq(refLog, Len(refLog) - 179, Len(refLog))
        /\ (Len(refLog) = 200 /\ Cardinality(Range(refLog)) = 200) =>
              RecentReferences = SubSeq(refLog, 21, 200)

C7_Witness ==
    /\ pc = "recording"
    /\ Len(refLog) = 200
    /\ Cardinality(Range(refLog)) = 200
    /\ Len(data.recentScriptures) = 180
    /\ data.recentScriptures[1].reference = refLog[21]
    /\ data.recentScriptures[180].reference = refLog[200]

\* C8: a title equal, once normalized, to no stored title is refused by the
\* title check with 'Title too similar' exactly when its overlap with some
\* stored title is above 70%, and passes it exactly when its overlap with
\* every stored title is 70% or less.
C8_SimilarAboveThreshold ==
    (pc = "titleChecked" /\ EqualTitles = { }) =>
        /\ OverlappingTitles # { } <=> (~check.ok /\ check.reason = TitleTooSimilar)
        /\ OverlappingTitles = { } <=> check.ok

C8_Witness ==
    /\ pc = "titleChecked"
    /\ EqualTitles = { }
    /\ OverlappingTitles = { }
    /\ TitlesAtOrAbove # { }
    /\ check.ok

\* C8 as stated: such a title is refused with 'Title too similar' whenever
\* its overlap with some stored title is 70% or more, and passes whenever
\* its overlap with every stored title is below 70%.
C8_SimilarAtThreshold ==
    (pc = "titleChecked" /\ EqualTitles = { }) =>
        /\ TitlesAtOrAbove # { } => (~check.ok /\ check.reason = TitleTooSimilar)
        /\ TitlesAtOrAbove = { } => check.ok

\* the words of a title, in order
WordsInOrder(t) == SplitNonWord(Normalize(t))

\* a title of 10 words, all different and all longer than 3 characters
TenWords(t) ==
    /\ Len(WordsInOrder(t)) = 10
    /\ Cardinality(Range(WordsInOrder(t))) = 10
    /\ \A w \in Range(WordsInOrder(t)) : Len(w) > 3

\* two titles of 10 words that differ in exactly k of them
TenWordsDifferingIn(a, b, k) ==
    /\ TenWords(a)
    /\ TenWords(b)
    /\ Cardinality(Range(WordsInOrder(a)) \ Range(WordsInOrder(b))) = k
    /\ Cardinality(Range(WordsInOrder(b)) \ Range(WordsInOrder(a))) = k

\* C9: of two titles of 10 words, the similarity is 6/14 when they differ
\* in exactly 4 words and 8/12 when they differ in exactly 2; in both cases
\* the one passes the title check against a history holding the other.
C9_TenWordTitles ==
    /\ pc = "measured" =>
          /\ TenWordsDifferingIn(candidate.title, check.stored, 4)
                => check.sim = [ inter |-> 6, uni |-> 14 ]
          /\ TenWordsDifferingIn(candidate.title, check.stored, 2)
                => check.sim = [ inter |-> 8, uni |-> 12 ]
    /\ (pc = "titleChecked" /\ Len(data.titles) = 1) =>
          /\ TenWordsDifferingIn(candidate.title, data.titles[1].title, 4)
                => check.ok
          /\ TenWordsDifferingIn(candidate.title, data.titles[1].title, 2)
                => check.ok

C9_Witness ==
    /\ pc = "titleChecked"
    /\ Len(data.titles) = 1
    /\ TenWordsDifferingIn(candidate.title, data.titles[1].title, 2)
    /\ check.ok

\* C9 as stated: the similarity is 0.6 when the two titles differ in
\* exactly 4 words, and the title passes; it is 0.8 when they differ in
\* exactly 2 words, and the title is refused with 'Title too similar'.
C9_TenWordTitlesAsStated ==
    /\ pc = "measured" =>
          /\ TenWordsDifferingIn(candidate.title, check.stored, 4)
                => 10 * check.sim.inter = 6 * check.sim.uni
          /\ TenWordsDifferingIn(candidate.title, check.stored, 2)
                => 10 * check.sim.inter = 8 * check.sim.uni
    /\ (pc = "titleChecked" /\ Len(data.titles) = 1) =>
          /\ TenWordsDifferingIn(candidate.title, data.titles[1].title, 4)
                => check.ok
          /\ TenWordsDifferingIn(candidate.title, data.titles[1].title, 2)
                => (~check.ok /\ check.reason = TitleTooSimilar)

\* C10: when the script waits for the next draft after k >= 1 rejections,
\* the prompt of that call lists the titles and references of the loaded
\* snapshot and those of every candidate refused so far in the run, and
\* carries the latest rejection reason.
C10_ExclusionsAccumulate ==
    (pc = "draft" /\ rejections >= 1) =>
        /\ Range(block.titles) \subseteq Range(system.titles)
        /\ Range(block.scriptures) \subseteq Range(system.scriptures)
        /\ \A c \in rejected :
              /\ c.title \in Range(system.titles)
              /\ c.scriptureReference \in Range(system.scriptures)
        /\ system.extra = lastReason
        /\ lastReason # ""

\* a stored use of the candidate's reference is within the cooldown
ReferenceInCooldown ==
    /\ candidate.scriptureReference # << >>
    /\ \E i \in MatchingUses : AgeMs(i) <= LookbackDays * MsPerDay

\* C15: validate answers with the refusal of the first check that fails, in
\* the order title, body, reference: a candidate whose title fails gets a
\* title reason whatever its body and reference, one whose title passes and
\* whose body is stored gets 'Content body duplicated' whatever its
\* reference, and a candidate is accepted exactly when all three pass.
C15_ChecksInOrder ==
    pc = "validated" =>
        LET title == TitlePasses
            body  == ~BodyStored
            ref   == ~ReferenceInCooldown
        IN  /\ ~title =>
                  ~check.ok /\ check.reason \in { ExactTitleMatch, TitleTooSimilar }
            /\ (title /\ ~body) =>
                  ~check.ok /\ check.reason = ContentDuplicated
            /\ (title /\ body /\ ~ref) =>
                  ~check.ok /\ check.reason = ScriptureUsed
            /\ check.ok <=> (title /\ body /\ ref)

C15_Witness ==
    /\ pc = "validated"
    /\ ~TitlePasses
    /\ BodyStored
    /\ ReferenceInCooldown
    /\ ~check.ok
    /\ check.reason = TitleTooSimilar

\* C16: a step that validates leaves the history in memory and the tracker
\* file as they were, and a validate that follows a validate of the same
\* candidate, with the history and the clock untouched in between, answers
\* the same.
C16_ValidatePure ==
    [][ pc' = "validated" =>
          /\ data' = data
          /\ file' = file
          /\ (pc = "validated" /\ candidate' = candidate /\ now' = now) =>
                check' = check ]_vars

C16_Witness ==
    /\ pc = "validated"
    /\ Len(data.titles) = 2
    /\ file = FileOf(data)
    /\ candidate = WalkingInFaith
    /\ ~check.ok

\* the history after 'Walking in Faith' alone has been recorded
OnlyWalking ==
    /\ Len(data.titles) = 1
    /\ data.titles[1].title = T_WalkingInFaith

\* C17: against the empty history 'Walking in Faith' (John 3:16, faith) is
\* accepted; once it is recorded the history holds one title, one content
\* hash and one reference entry; against that history the same candidate is
\* refused with 'Exact title match' and 'Faith and Walking', with another
\* body and Romans 8:28, with 'Title too similar'.
C17_WalkingInFaith ==
    /\ (pc = "validated" /\ data.titles = << >> /\ candidate = WalkingInFaith) =>
          check.ok
    /\ OnlyWalking =>
          /\ Len(data.contentHashes) = 1
          /\ Len(data.scriptureReferences) = 1
          /\ Len(data.recentScriptures) = 1
          /\ data.recentScriptures[1].reference = R_John
          /\ data.titles[1].theme = Th_Faith
    /\ (pc = "validated" /\ OnlyWalking /\ candidate = WalkingInFaith) =>
          ~check.ok /\ check.reason = ExactTitleMatch
    /\ (pc = "validated" /\ OnlyWalking /\ candidate = FaithAndWalking) =>
          ~check.ok /\ check.reason = TitleTooSimilar

C17_Witness ==
    /\ pc = "validated"
    /\ OnlyWalking
    /\ file = FileOf(data)
    /\ candidate = FaithAndWalking
    /\ check.reason = TitleTooSimilar

-----------------------------------------------------------------------------
(* Properties of the history over runs *)

\* the titles of the persisted history, normalized
StoredNormalized ==
    [ i \in 1..Len(file.json.titles) |-> Normalize(file.json.titles[i].title) ]

\* C11: whatever runs were made, no two title entries of the persisted
\* history are equal once normalized.
C11_TitlesDistinct ==
    file.exists =>
        \A i, j \in DOMAIN StoredNormalized :
            i # j => StoredNormalized[i] # StoredNormalized[j]

\* C12: when a generator call of a run has failed, the run is stopped as
\* failed; the failed call is the last one it made (every call before it
\* was answered and its candidate validated, and the failed one was not
\* made again); the devotional of the day is not written and the persisted
\* history is the one the run found.
C12_GeneratorFailureAborts ==
    failure = "generator" =>
        /\ pc = "failed"
        /\ \/ fallbackCalls = 0 /\ draftCalls = validations + 1
           \/ /\ fallbackCalls = 1
              /\ draftCalls = MAX_TRIES
              /\ validations = MAX_TRIES
        /\ draftCalls <= MAX_TRIES
        /\ ~ArtifactExists(artifacts, today)
        /\ file = fileAtStart

C12_Witness ==
    /\ pc = "failed"
    /\ failure = "generator"
    /\ fallbackCalls = 1
    /\ rejections = MAX_TRIES
    /\ file.exists
    /\ file = fileAtStart

\* C13: when the write of the history file has failed in record(), the run
\* is stopped as failed and the file is as the run found it; a run that
\* ended as done had no failure and left on disk the history it holds in
\* memory.
C13_SaveFailureAborts ==
    /\ failure = "history" =>
          /\ pc = "failed"
          /\ file = fileAtStart
    /\ pc = "done" =>
          /\ failure = ""
          /\ file = FileOf(data)

C13_Witness ==
    /\ pc = "failed"
    /\ failure = "history"
    /\ ArtifactExists(artifacts, today)
    /\ file = fileAtStart
    /\ Len(data.titles) = Len(Loaded.titles) + 1

-----------------------------------------------------------------------------
(* Properties of the tracker file *)

\* the lists of a loaded record: every field but the two scalars
ListsOf(d) == DOMAIN d \ { "lastUpdated", "totalDevotionals" }

\* C14: right after the constructor has loaded the tracker file, no error
\* has escaped; the record in memory is the persisted one when the file
\* exists and parses, and otherwise a fresh one in which every list is empty
\* and totalDevotionals is 0.
C14_LoadNeverFails ==
    pc \in { "loaded", "loadedSimple" } =>
        /\ "error" \notin DOMAIN data
        /\ IF file.exists /\ file.parses
           THEN data = file.json
           ELSE /\ "titles" \in ListsOf(data)
                /\ \A k \in ListsOf(data) : data[k] = << >>
                /\ data.totalDevotionals = 0

C14_Witness ==
    /\ pc = "loaded"
    /\ file = FileCorrupt
    /\ data.titles = << >>
    /\ data.totalDevotionals = 0

\* C20: every step that writes the tracker file leaves in it a record whose
\* totalDevotionals is the number of its title entries and whose lastUpdated
\* is the time of the write.
C20_SavedTotals ==
    [][ file' # file =>
          /\ file'.exists /\ file'.parses
          /\ file'.json.totalDevotionals = Len(file'.json.titles)
          /\ file'.json.lastUpdated = now' ]_vars

C20_Witness ==
    /\ pc = "cleaned"
    /\ fileAtStart.exists /\ fileAtStart.parses
    /\ Len(file.json.titles) < Len(fileAtStart.json.titles)
    /\ file.json.titles # << >>
    /\ file.json.totalDevotionals = Len(file.json.titles)
    /\ file.json.lastUpdated = now
    /\ now # StartTime

-----------------------------------------------------------------------------
(* Properties of sim and calculateSimilarity *)

Measured == pc \in { "sim", "calculateSimilarity" }

\* C18: the similarity of a and b is the similarity of b and a, and it is a
\* quotient between 0 and 1.
C18_SymmetricInUnitInterval ==
    Measured =>
        /\ check.ab.inter * check.ba.uni = check.ba.inter * check.ab.uni
        /\ check.ab.uni > 0
        /\ 0 <= check.ab.inter
        /\ check.ab.inter <= check.ab.uni

C18_Witness ==
    /\ pc = "sim"
    /\ candidate.a # candidate.b
    /\ check.ab.inter = 1
    /\ check.ab.uni = 2
    /\ check.ba.inter = 1
    /\ check.ba.uni = 2

\* four word characters in a row: the text has a word longer than 3
HasLongWord(text) ==
    \E i \in 1..(Len(text) - 3) : \A k \in i..(i + 3) : IsWordChar(text[k])

\* a text measured against itself that is not empty and is its own
\* normalization
SelfMeasured ==
    /\ Measured
    /\ candidate.a = candidate.b
    /\ candidate.a # << >>
    /\ candidate.a = Normalize(candidate.a)

\* C19: the similarity of a non-empty normalized text with itself is 1 when
\* the text has a word longer than 3 characters, and 0 when it has none.
C19_SelfSimilarity ==
    SelfMeasured =>
        IF HasLongWord(candidate.a)
        THEN check.ab.inter = check.ab.uni
        ELSE check.ab.inter = 0

C19_Witness ==
    /\ SelfMeasured
    /\ ~HasLongWord(candidate.a)
    /\ check.ab.inter = 0
    /\ check.ab.uni = 1

\* C19 as stated: the similarity of a non-empty normalized text with itself
\* is 1.
C19_SelfSimilarityOne ==
    SelfMeasured => check.ab.inter = check.ab.uni

-----------------------------------------------------------------------------
(* Properties of record() and of pruning *)

\* after is before with one entry more at its end
GrewByOne(before, after) ==
    /\ Len(after) = Len(before) + 1
    /\ \A i \in 1..Len(before) : after[i] = before[i]

\* after is before with one entry more at its end, cut to its last 180
GrewByOneCapped(before, after) ==
    LET shift == Len(before) + 1 - Len(after)
    IN  /\ Len(after) = IF Len(before) < 180 THEN Len(before) + 1 ELSE 180
        /\ \A i \in 1..(Len(after) - 1) : after[i] = before[i + shift]

\* C21: a record() step adds one entry to titles and one to contentHashes;
\* one to scriptureReferences and one to recentScriptures (then cut to its
\* last 180) exactly when the devotional has a reference; one to themes
\* exactly when it has a theme; the entries already there stay as they are
\* and in order; and the record is saved with the step.
C21_RecordAppends ==
    [][ LET devotional == candidate'
            hasRef     == devotional.scriptureReference # << >>
            hasTheme   == devotional.theme # << >>
        IN  /\ GrewByOne(data.titles, data'.titles)
            /\ data'.titles[Len(data'.titles)].title = devotional.title
            /\ GrewByOne(data.contentHashes, data'.contentHashes)
            /\ IF hasRef
               THEN /\ GrewByOne(data.scriptureReferences, data'.scriptureReferences)
                    /\ GrewByOneCapped(data.recentScriptures, data'.recentScriptures)
                    /\ data'.recentScriptures[Len(data'.recentScriptures)].reference
                          = devotional.scriptureReference
               ELSE /\ data'.scriptureReferences = data.scriptureReferences
                    /\ data'.recentScriptures = data.recentScriptures
            /\ IF hasTheme
               THEN /\ GrewByOne(data.themes, data'.themes)
                    /\ data'.themes[Len(data'.themes)].category = devotional.theme
               ELSE data'.themes = data.themes
            /\ data'.keyPhrases = data.keyPhrases
            /\ file' = FileOf(data')
            /\ data'.totalDevotionals = Len(data'.titles) ]_vars

C21_Witness ==
    /\ pc = "recording"
    /\ Len(refLog) > 180
    /\ Len(data.recentScriptures) = 180
    /\ Len(data.scriptureReferences) = Len(refLog)
    /\ Len(data.titles) > Len(refLog)
    /\ Len(data.themes) = 1
    /\ Len(data.contentHashes) = Len(data.titles)

\* the four lists cleanupOldData() prunes
PrunedLists == { "titles", "keyPhrases", "scriptureReferences", "themes" }

\* the entries of list dated later than days days before the time t
LaterThan(list, t, days) ==
    { i \in DOMAIN list :
        LET used == DateTime(list[i].dateUsed)
        IN  \/ used.day > t.day - days
            \/ used.day = t.day - days /\ used.ms > t.ms }

\* after holds the entries of before whose indexes are in keep, in order
KeepsInOrder(before, after, keep) ==
    /\ Len(after) = Cardinality(keep)
    /\ \A i \in keep : after[Cardinality({ j \in keep : j <= i })] = before[i]

\* before is the beginning of after
BeginsWith(after, before) ==
    /\ Len(before) <= Len(after)
    /\ \A i \in 1..Len(before) : after[i] = before[i]

\* C22: a cleanupOldData(daysToKeep) step leaves in each of titles,
\* keyPhrases, scriptureReferences and themes the entries dated later than
\* daysToKeep days before now, in their order, and saves; every other step of
\* an open tracker, and every other write of the file, leaves each of the
\* four lists beginning with what it held before.
C22_OnlyPruningRemoves ==
    [][ LET cleaning == pc' = "cleaned"
        IN  /\ cleaning =>
                  /\ \A l \in PrunedLists :
                        KeepsInOrder(data[l], data'[l],
                                     LaterThan(data[l], now', check'.daysToKeep))
                  /\ file' = FileOf(data')
            /\ (pc # "closed" /\ ~cleaning) =>
                  \A l \in PrunedLists : BeginsWith(data'[l], data[l])
            /\ (file.exists /\ file' # file /\ ~cleaning) =>
                  \A l \in PrunedLists : BeginsWith(file'.json[l], file.json[l])
      ]_vars

C22_Witness ==
    /\ pc = "cleaned"
    /\ check.daysToKeep = DaysToKeep
    /\ now.ms > 0
    /\ fileAtStart.exists
    /\ Len(fileAtStart.json.titles) = 3
    /\ Len(fileAtStart.json.keyPhrases) = 9
    /\ Len(data.titles) = 2
    /\ data.titles[1] = fileAtStart.json.titles[3]
    /\ Len(data.keyPhrases) = 6
    /\ data.keyPhrases[1].phrase = Trim(SubSeq(B_StandInFaith, 1, 19))
    /\ Len(data.themes) = 2
    /\ file = FileOf(data)

\* the day the k-th reference of refLog was recorded, when one is recorded
\* every day from StartTime on
DayRecorded(k) == StartTime.day + k - 1

\* the references of refLog recorded less than days days before today
RecordedWithin(days) ==
    { k \in DOMAIN refLog : now.day - DayRecorded(k) < days }

\* C28: with one devotional recorded per date, every reference recorded
\* less than 21 days before today is in recentScriptures, under its date,
\* also when the list is full; and a candidate that validate accepts has a
\* reference recorded 21 days ago or longer.
C28_CooldownOutlivesCap ==
    LET recent == data.recentScriptures
        within == RecordedWithin(LookbackDays)
        \* where the k-th reference stands when none after it was evicted
        At(k)  == Len(recent) - (Len(refLog) - k)
    IN  /\ \A k \in within :
              /\ At(k) \in DOMAIN recent
              /\ recent[At(k)].reference = refLog[k]
              /\ DateTime(recent[At(k)].dateUsed).day = DayRecorded(k)
        /\ (check # Null /\ check.ok) =>
              \A k \in within : refLog[k] # candidate.scriptureReference

C28_Witness ==
    /\ check # Null
    /\ ~check.ok
    /\ check.reason = ScriptureUsed
    /\ Len(refLog) > MaxRecentScriptures
    /\ Len(data.recentScriptures) = MaxRecentScriptures
    /\ candidate.scriptureReference = refLog[Len(refLog) + 2 - LookbackDays]

\* the references of the persisted history
Persisted ==
    IF file.exists
    THEN { file.json.scriptureReferences[i].reference :
              i \in DOMAIN file.json.scriptureReferences }
    ELSE { }

\* of two processes that recorded, the i-th first: the j-th had started
\* before the i-th recorded
Overlapped(i, j) == refLog[j].run <= refLog[i].started

\* C29: when two processes loaded the same history and both recorded, the
\* history persisted by the second holds its entry and not the entry of the
\* first; and the entry of a process is in the persisted history as long as
\* every process that recorded after it had started after it recorded.
C29_LostUpdate ==
    LET last == Len(refLog)
    IN  /\ \A i \in 1 .. last - 1 :
              refLog[i].loaded = refLog[last].loaded =>
                 /\ refLog[last].reference \in Persisted
                 /\ refLog[i].reference \notin Persisted
        /\ \A i \in 1 .. last :
              (\A j \in i + 1 .. last : ~Overlapped(i, j)) =>
                 refLog[i].reference \in Persisted

C29_Witness ==
    /\ Len(refLog) = 3
    /\ ~Overlapped(1, 2)
    /\ ~Overlapped(1, 3)
    /\ refLog[2].loaded = refLog[3].loaded
    /\ refLog[1].reference \in Persisted
    /\ refLog[2].reference \notin Persisted
    /\ refLog[3].reference \in Persisted

\* the places of PROVIDERS before place i that hold one of the three names
KnownBefore(i) ==
    { j \in 1 .. i - 1 : block.PROVIDERS[j] \in KnownProviders }

\* the notes of refLog of one kind
Noted(kind) == { n \in DOMAIN refLog : refLog[n].kind = kind }

\* C30: the requests go to the providers in the order of PROVIDERS, and
\* while a provider is tried every known provider before it has an error
\* pushed; a run writes at most one devotional, after which it is done with
\* no request following; and a run fails only when every known provider of
\* the list has an error pushed, with no devotional written.
C30_ProvidersInOrder ==
    /\ \A m, n \in Noted("request") :
          /\ refLog[n].provider = block.PROVIDERS[refLog[n].index]
          /\ m < n => refLog[m].index <= refLog[n].index
    /\ pc \in { "loop", "post", "write", "done", "failed" } =>
          /\ Len(data.errors) = Cardinality(KnownBefore(data.index))
          /\ \A k \in DOMAIN data.errors :
                \E j \in KnownBefore(data.index) :
                   /\ Cardinality(KnownBefore(j)) = k - 1
                   /\ data.errors[k].provider = block.PROVIDERS[j]
          /\ \A n \in Noted("request") :
                /\ refLog[n].index <= data.index
                /\ pc \in { "loop", "failed" } => refLog[n].index < data.index
    /\ Cardinality(Noted("written")) <= 1
    /\ \A n \in Noted("written") :
          /\ pc = "done"
          /\ n = Len(refLog)
          /\ refLog[n].index = data.index
          /\ artifacts = { today }
    /\ pc = "done" => Noted("written") # { }
    /\ pc = "failed" =>
          /\ data.index = Len(block.PROVIDERS) + 1
          /\ Noted("written") = { }
          /\ artifacts = { }

C30_Witness ==
    /\ pc = "done"
    /\ block.PROVIDERS = << "deepseek", "openai", "groq" >>
    /\ data.index = 3
    /\ Len(data.errors) = 2
    /\ data.errors[1].provider = "deepseek"
    /\ data.errors[2].provider = "openai"
    /\ Cardinality(Noted("request")) > 3
    /\ refLog[Len(refLog)].provider = "groq"

\* the requests noted for the provider at place i of PROVIDERS
RequestsAt(log, i) ==
    { n \in DOMAIN log : log[n].kind = "request" /\ log[n].index = i }

\* the requests noted for the provider of that name
RequestsTo(log, name) ==
    { n \in DOMAIN log : log[n].kind = "request" /\ log[n].provider = name }

\* C31 as stated: no provider receives more than MAX_ATTEMPTS_PER_PROVIDER
\* requests in a run.
C31_RequestsPerProvider ==
    \A name \in KnownProviders :
       Cardinality(RequestsTo(refLog, name)) <= MAX_ATTEMPTS_PER_PROVIDER

\* C31: the provider at each place of PROVIDERS receives at most
\* MAX_ATTEMPTS_PER_PROVIDER requests; a request is followed by another one
\* to the same provider only when it was refused with 408, 429 or 5xx and
\* fewer than MAX_ATTEMPTS_PER_PROVIDER had been sent; after 402, any other
\* refusal, an empty completion or a thrown error the loop is at the next
\* place of PROVIDERS with an error pushed.
C31_RetriesPerTurn ==
    [][ draftCalls' = draftCalls + 1 =>
          LET r       == response'
              refused == ~r.threw /\ ~r.ok
              retried == pc' = "post"
          IN  /\ \A i \in 1 .. Len(block.PROVIDERS) :
                    Cardinality(RequestsAt(refLog', i)) <= MAX_ATTEMPTS_PER_PROVIDER
              /\ refLog'[Len(refLog')].attempt
                    = Cardinality(RequestsAt(refLog', data.index))
              /\ retried <=> /\ refused
                             /\ r.status \in { 408, 429 } \cup (500 .. 599)
                             /\ attempt < MAX_ATTEMPTS_PER_PROVIDER
              /\ retried => /\ attempt' = attempt + 1
                            /\ data' = data
              /\ (r.threw \/ refused \/ r.words = 0) /\ ~retried =>
                    /\ pc' = "loop"
                    /\ data'.index = data.index + 1
                    /\ Len(data'.errors) = Len(data.errors) + 1
                    /\ artifacts' = artifacts
              /\ (~r.threw /\ r.ok /\ r.words > 0) => pc' = "write"
      ]_vars

C31_Witness ==
    /\ pc = "loop"
    /\ data.index = 3
    /\ Cardinality(RequestsAt(refLog, 1)) = MAX_ATTEMPTS_PER_PROVIDER
    /\ Cardinality(RequestsAt(refLog, 2)) = 1
    /\ data.errors[1].message = "error"
    /\ data.errors[2].code = "INSUFFICIENT_BALANCE"
    /\ response.status = 402

\* C32: the low-cost driver sends at most MAX_ATTEMPTS requests; a request
\* refused by the API is followed by a backoff and another request only
\* when the status is 408, 429 or 5xx; and after a refusal with any other
\* status but 402 the run has failed with no further request.
C32_RetryOnlyRetryable ==
    [][ draftCalls' = draftCalls + 1 =>
          LET r       == response'
              refused == ~r.threw /\ ~r.ok
              again   == pc' = "request"
          IN  /\ Len(refLog') <= MAX_ATTEMPTS
              /\ (refused /\ again) => IsTransient(r.status)
              /\ (refused /\ ~IsTransient(r.status) /\ r.status # 402) =>
                    pc' = "failed" /\ data' = [ exitCode |-> 1 ]
      ]_vars

\* C33: a request of the low-cost driver that is refused with 402 ends the
\* process with exit code 0, on whichever attempt; nothing is written, and
\* the process that has so ended takes no further step.
C33_InsufficientBalanceExitsZero ==
    [][ /\ pc # "exited"
        /\ (draftCalls' = draftCalls + 1 /\ ~response'.threw /\ response'.status = 402) =>
              /\ pc' = "exited"
              /\ data' = [ exitCode |-> 0 ]
              /\ artifacts' = artifacts
              /\ now' = now
        /\ pc' = "exited" =>
              /\ artifacts' = { }
              /\ response'.status = 402
              /\ draftCalls' = Len(refLog')
              /\ draftCalls' = attempt'
      ]_vars

C33_Witness ==
    /\ pc = "exited"
    /\ data = [ exitCode |-> 0 ]
    /\ Len(refLog) = 2
    /\ response.status = 402
    /\ artifacts = { }
    /\ now.ms >= DelayMs(1, 0)

=============================================================================
